---- MODULE Spec2Model ----
(***************************************************************************)
(* Model of the workbook validation pipeline of src/src/excelImportParser.js*)
(* (parseAndValidateImportWorkbook and the parsers it runs).               *)
(*                                                                         *)
(* Representation.                                                         *)
(*  - A text is a sequence of one-character strings, so that trimming,     *)
(*    case folding, splitting and number parsing are computed, character   *)
(*    by character, as the code computes them.                             *)
(*  - sheet_to_json is called with raw:false and defval:"", so every cell  *)
(*    of a sheet is a text.  A cell under a header the sheet does not have *)
(*    is undefined in the code (see Data).                                 *)
(*  - A JSON value (an entry of values_json, a coerced attribute value) is *)
(*    a record [t, s, m, d, b, l]: t is the JavaScript type, s the text of *)
(*    a string (or the name of an opaque object / array), m and d the      *)
(*    mantissa and decimal scale of a number (m / 10^d, without trailing   *)
(*    zeros), b a boolean, l the language key of a localized wrapper.      *)
(*  - JSON.parse is a built-in: a *_json cell is carried already parsed,   *)
(*    as a record [kind, entries] (see JsonCell).                          *)
(***************************************************************************)
EXTENDS Integers, Sequences, FiniteSets, TLC

(***************************************************************************)
(* Characters and texts                                                    *)
(***************************************************************************)
UpperChars == <<"A","B","C","D","E","F","G","H","I","J","K","L","M",
                "N","O","P","Q","R","S","T","U","V","W","X","Y","Z">>
LowerChars == <<"a","b","c","d","e","f","g","h","i","j","k","l","m",
                "n","o","p","q","r","s","t","u","v","w","x","y","z">>
DigitChars == <<"0","1","2","3","4","5","6","7","8","9">>

IsWhitespace(c) == c \in {" ", "\t", "\n", "\r"}
IsDigit(c) == c \in {"0","1","2","3","4","5","6","7","8","9"}

\* the position of c in the list chars, 0 if it is not in it
IndexOf(chars, c) ==
  IF \E i \in DOMAIN chars : chars[i] = c
    THEN CHOOSE i \in DOMAIN chars : chars[i] = c
    ELSE 0

LowerChar(c) ==
  LET At(i) == IF i = 0 THEN c ELSE LowerChars[i] IN At(IndexOf(UpperChars, c))
UpperChar(c) ==
  LET At(i) == IF i = 0 THEN c ELSE UpperChars[i] IN At(IndexOf(LowerChars, c))

toLowerCase(s) == [i \in DOMAIN s |-> LowerChar(s[i])]
toUpperCase(s) == [i \in DOMAIN s |-> UpperChar(s[i])]

RECURSIVE TrimStart(_)
TrimStart(s) ==
  IF s = <<>> THEN <<>>
  ELSE IF IsWhitespace(Head(s)) THEN TrimStart(Tail(s)) ELSE s

RECURSIVE TrimEnd(_)
TrimEnd(s) ==
  IF s = <<>> THEN <<>>
  ELSE IF IsWhitespace(s[Len(s)]) THEN TrimEnd(SubSeq(s, 1, Len(s) - 1)) ELSE s

trim(s) == TrimEnd(TrimStart(s))

(***************************************************************************)
(* JavaScript values                                                       *)
(***************************************************************************)
JsValue(t, s, m, d, b, l) == [t |-> t, s |-> s, m |-> m, d |-> d, b |-> b, l |-> l]

Undefined == JsValue("undefined", <<>>, 0, 0, FALSE, <<>>)
NullV == JsValue("null", <<>>, 0, 0, FALSE, <<>>)
StrV(s) == JsValue("string", s, 0, 0, FALSE, <<>>)
BoolV(b) == JsValue("boolean", <<>>, 0, 0, b, <<>>)
\* a plain object, opaque but for its name s
ObjV(s) == JsValue("object", s, 0, 0, FALSE, <<>>)
\* an array; s is String(array), its elements joined by ","
ArrV(s) == JsValue("array", s, 0, 0, FALSE, <<>>)
\* the object { [l]: s } built by coerceAttributeValue
LocalizedV(l, s) == JsValue("localized", s, 0, 0, FALSE, l)

RECURSIVE Pow10(_)
Pow10(n) == IF n <= 0 THEN 1 ELSE 10 * Pow10(n - 1)

\* the number m / 10^d, written without trailing decimal zeros
RECURSIVE NumV(_, _)
NumV(m, d) ==
  IF d > 0 /\ m % 10 = 0 THEN NumV(m \div 10, d - 1)
  ELSE JsValue("number", <<>>, m, IF m = 0 THEN 0 ELSE d, FALSE, <<>>)

RECURSIVE NatToText(_)
NatToText(n) ==
  IF n < 10 THEN <<DigitChars[n + 1]>>
  ELSE Append(NatToText(n \div 10), DigitChars[(n % 10) + 1])

RECURSIVE PadZeros(_, _)
PadZeros(s, width) == IF Len(s) >= width THEN s ELSE PadZeros(<<"0">> \o s, width)

\* String(number) for a finite number in decimal notation
NumToText(v) ==
  LET Digits(a) ==
        IF v.d = 0 THEN NatToText(a)
        ELSE NatToText(a \div Pow10(v.d)) \o <<".">>
               \o PadZeros(NatToText(a % Pow10(v.d)), v.d)
  IN IF v.m < 0 THEN <<"-">> \o Digits(0 - v.m) ELSE Digits(v.m)

ObjectObjectText ==
  <<"[","o","b","j","e","c","t"," ","O","b","j","e","c","t","]">>

\* String(value)
StringOf(value) ==
  CASE value.t = "string" -> value.s
    [] value.t = "number" -> NumToText(value)
    [] value.t = "boolean" ->
         IF value.b THEN <<"t","r","u","e">> ELSE <<"f","a","l","s","e">>
    [] value.t = "array" -> value.s
    [] OTHER -> ObjectObjectText

toText(value) ==
  IF value.t \in {"null", "undefined"} THEN <<>> ELSE trim(StringOf(value))

normalizeIdentifier(value) == toLowerCase(toText(value))

isBlank(value) ==
  IF value.t \in {"null", "undefined"} THEN TRUE
  ELSE IF value.t = "string" THEN trim(value.s) = <<>>
  ELSE FALSE

\* text.split(/[;,]/): the pieces between separators, empty pieces included
RECURSIVE SplitFrom(_, _, _)
SplitFrom(s, i, cur) ==
  IF i > Len(s) THEN <<cur>>
  ELSE IF s[i] \in {";", ","} THEN <<cur>> \o SplitFrom(s, i + 1, <<>>)
  ELSE SplitFrom(s, i + 1, Append(cur, s[i]))

SplitCsv(s) == SplitFrom(s, 1, <<>>)

RECURSIVE FilterNonEmpty(_)
FilterNonEmpty(q) ==
  IF q = <<>> THEN <<>>
  ELSE IF Head(q) = <<>> THEN FilterNonEmpty(Tail(q))
  ELSE <<Head(q)>> \o FilterNonEmpty(Tail(q))

\* the Array.isArray branch is not taken: every caller passes a sheet cell
parseCsvList(value) ==
  LET Normalized(parts) ==
        FilterNonEmpty([i \in DOMAIN parts |-> normalizeIdentifier(StrV(parts[i]))])
      OfText(text) == IF text = <<>> THEN <<>> ELSE Normalized(SplitCsv(text))
  IN OfText(toText(value))

SeqToSet(q) == {q[i] : i \in DOMAIN q}

\* new Set(list) / set.add(x): insertion order kept, repeats dropped
SetAdd(q, x) == IF x \in SeqToSet(q) THEN q ELSE Append(q, x)

RECURSIVE SetAddAll(_, _)
SetAddAll(q, xs) == IF xs = <<>> THEN q ELSE SetAddAll(SetAdd(q, Head(xs)), Tail(xs))

NewSet(xs) == SetAddAll(<<>>, xs)


(***************************************************************************)
(* Scalar coercers                                                         *)
(***************************************************************************)
Ok(value) == [ok |-> TRUE, value |-> value, error |-> ""]
Fail(error) == [ok |-> FALSE, value |-> Undefined, error |-> error]

\* faulty variant of parseBoolean: the text is compared without lowercasing
parseBooleanCaseSensitive(value) ==
  IF value.t = "boolean" THEN Ok(value)
  ELSE IF toText(value) \in {<<"t","r","u","e">>, <<"1">>, <<"y","e","s">>, <<"y">>}
    THEN Ok(BoolV(TRUE))
  ELSE IF toText(value) \in {<<"f","a","l","s","e">>, <<"0">>, <<"n","o">>, <<"n">>}
    THEN Ok(BoolV(FALSE))
  ELSE Fail("Expected one of: true/false/1/0/yes/no")

parseBoolean(value) ==
  IF value.t = "boolean" THEN Ok(value)
  ELSE IF value.t = "number" THEN
    IF value.m = 1 /\ value.d = 0 THEN Ok(BoolV(TRUE))
    ELSE IF value.m = 0 THEN Ok(BoolV(FALSE))
    ELSE Fail("Expected boolean-like value")
  ELSE
    LET OfText(text) ==
          IF text = <<>> THEN Fail("Expected boolean-like value")
          ELSE IF text \in {<<"t","r","u","e">>, <<"1">>, <<"y","e","s">>, <<"y">>}
            THEN Ok(BoolV(TRUE))
          ELSE IF text \in {<<"f","a","l","s","e">>, <<"0">>, <<"n","o">>, <<"n">>}
            THEN Ok(BoolV(FALSE))
          ELSE Fail("Expected one of: true/false/1/0/yes/no")
    IN OfText(toLowerCase(toText(value)))

DigitValue(c) == IndexOf(DigitChars, c) - 1

\* the number of digits of s from position i on
RECURSIVE DigitRun(_, _)
DigitRun(s, i) ==
  IF i <= Len(s) /\ IsDigit(s[i]) THEN 1 + DigitRun(s, i + 1) ELSE 0

\* the value of the n digits of s from position i on
RECURSIVE DigitsValue(_, _, _)
DigitsValue(s, i, n) ==
  IF n = 0 THEN 0
  ELSE 10 * DigitsValue(s, i, n - 1) + DigitValue(s[i + n - 1])

\* /^-?\d+$/.test(text)
IsIntegerText(text) ==
  LET From(start) ==
        /\ Len(text) >= start
        /\ DigitRun(text, start) = Len(text) - start + 1
  IN From(IF text # <<>> /\ Head(text) = "-" THEN 2 ELSE 1)

\* Number.parseInt(text, 10) of a text that matches /^-?\d+$/
ParseIntText(text) ==
  IF Head(text) = "-" THEN 0 - DigitsValue(text, 2, Len(text) - 1)
  ELSE DigitsValue(text, 1, Len(text))

parseInteger(value) ==
  IF value.t = "number" /\ value.d = 0 THEN Ok(value)
  ELSE LET OfText(text) ==
             IF ~IsIntegerText(text) THEN Fail("Expected integer")
             ELSE Ok(NumV(ParseIntText(text), 0))
       IN OfText(toText(value))

\* Number.parseFloat(text): the longest prefix that is a decimal literal
\* [+-] digits [. digits] [e [+-] digits]; finite is FALSE for NaN and Infinity.
\* The literal is read left to right: sign, integer digits (from i0, nInt of them),
\* fraction digits (nFrac of them), exponent (at iExp, nExp digits at iExpDigits).
FloatValue(mantAbs, neg, scale) ==
  IF scale >= 0 THEN NumV(IF neg THEN 0 - mantAbs ELSE mantAbs, scale)
  ELSE NumV((IF neg THEN 0 - mantAbs ELSE mantAbs) * Pow10(0 - scale), 0)

FloatExponent(text, neg, mantAbs, nFrac, iExp) ==
  LET Exp(hasE, eSigned) ==
        LET Digits(iExpDigits, nExp) ==
              LET Value(expAbs) ==
                    FloatValue(mantAbs, neg,
                      IF eSigned /\ text[iExp + 1] = "-" THEN nFrac + expAbs
                      ELSE nFrac - expAbs)
              IN Value(DigitsValue(text, iExpDigits, nExp))
        IN Digits(IF eSigned THEN iExp + 2 ELSE iExp + 1,
                  IF hasE THEN DigitRun(text, IF eSigned THEN iExp + 2 ELSE iExp + 1)
                  ELSE 0)
  IN Exp(iExp <= Len(text) /\ text[iExp] \in {"e", "E"},
         /\ iExp <= Len(text) /\ text[iExp] \in {"e", "E"}
         /\ iExp + 1 <= Len(text) /\ text[iExp + 1] \in {"+", "-"})

FloatFraction(text, neg, i0, nInt) ==
  LET Frac(iDot, hasDot) ==
        LET Rest(nFrac) ==
              IF nInt + nFrac = 0 THEN [finite |-> FALSE, value |-> Undefined]
              ELSE [finite |-> TRUE,
                    value |-> FloatExponent(text, neg,
                                DigitsValue(text, i0, nInt) * Pow10(nFrac)
                                  + DigitsValue(text, iDot + 1, nFrac),
                                nFrac,
                                IF hasDot THEN iDot + 1 + nFrac ELSE iDot)]
        IN Rest(IF hasDot THEN DigitRun(text, iDot + 1) ELSE 0)
  IN Frac(i0 + nInt, i0 + nInt <= Len(text) /\ text[i0 + nInt] = ".")

ParseFloatText(text) ==
  LET Signed(signed) ==
        FloatFraction(text, signed /\ Head(text) = "-",
                      IF signed THEN 2 ELSE 1,
                      DigitRun(text, IF signed THEN 2 ELSE 1))
  IN Signed(text # <<>> /\ Head(text) \in {"+", "-"})

parseFloatNumber(value) ==
  IF value.t = "number" THEN Ok(value)
  ELSE LET OfParsed(parsed) ==
             IF ~parsed.finite THEN Fail("Expected number") ELSE Ok(parsed.value)
           OfText(text) ==
             IF text = <<>> THEN Fail("Expected number")
             ELSE OfParsed(ParseFloatText(text))
       IN OfText(toText(value))

(***************************************************************************)
(* JSON cells.  kind is "blank" (empty or whitespace text), "invalid"      *)
(* (JSON.parse throws), "nonobject" (parses to null, an array or a scalar) *)
(* or "object" (parses to an object, whose entries are given in order as   *)
(* records [key, value], keys distinct).                                   *)
(***************************************************************************)
JsonCell(kind, entries) == [kind |-> kind, entries |-> entries]
BlankJson == JsonCell("blank", <<>>)

parseJsonObject(cell, allowBlank) ==
  IF cell.kind = "blank" THEN
    IF allowBlank THEN [ok |-> TRUE, value |-> <<>>, error |-> ""]
    ELSE [ok |-> FALSE, value |-> <<>>, error |-> "JSON object is required"]
  ELSE IF cell.kind = "nonobject" THEN
    [ok |-> FALSE, value |-> <<>>, error |-> "Expected JSON object"]
  ELSE IF cell.kind = "invalid" THEN
    [ok |-> FALSE, value |-> <<>>, error |-> "Invalid JSON object"]
  ELSE [ok |-> TRUE, value |-> cell.entries, error |-> ""]

(***************************************************************************)
(* Attribute value coercion                                                *)
(***************************************************************************)
\* faulty variant of coerceAttributeValue: every type code stores the text
coerceAttributeValueAsText(rawValue, attribute, defaultLanguage) ==
  IF rawValue.t \in {"null", "undefined"} \/ toText(rawValue) = <<>> THEN
    [ok |-> TRUE, skip |-> TRUE, value |-> Undefined, error |-> ""]
  ELSE IF attribute.languageDependent THEN
    IF rawValue.t \in {"object", "localized"} THEN
      [ok |-> TRUE, skip |-> FALSE, value |-> rawValue, error |-> ""]
    ELSE
      [ok |-> TRUE, skip |-> FALSE,
       value |-> LocalizedV(defaultLanguage, toText(rawValue)), error |-> ""]
  ELSE [ok |-> TRUE, skip |-> FALSE, value |-> StrV(toText(rawValue)), error |-> ""]

\* faulty variant of coerceAttributeValue: the language flag is not looked at
coerceAttributeValueIgnoringLanguage(rawValue, attribute, defaultLanguage) ==
  IF rawValue.t \in {"null", "undefined"} \/ toText(rawValue) = <<>> THEN
    [ok |-> TRUE, skip |-> TRUE, value |-> Undefined, error |-> ""]
  ELSE
    LET Coerced(parsed) ==
          [ok |-> parsed.ok, skip |-> FALSE, value |-> parsed.value,
           error |-> parsed.error]
    IN Coerced(CASE attribute.type = 2 -> parseBoolean(rawValue)
                 [] attribute.type = 3 -> parseInteger(rawValue)
                 [] attribute.type = 4 -> parseFloatNumber(rawValue)
                 [] OTHER -> Ok(StrV(toText(rawValue))))

coerceAttributeValue(rawValue, attribute, defaultLanguage) ==
  IF rawValue.t \in {"null", "undefined"} \/ toText(rawValue) = <<>> THEN
    [ok |-> TRUE, skip |-> TRUE, value |-> Undefined, error |-> ""]
  ELSE IF attribute.languageDependent THEN
    IF rawValue.t \in {"object", "localized"} THEN
      [ok |-> TRUE, skip |-> FALSE, value |-> rawValue, error |-> ""]
    ELSE
      [ok |-> TRUE, skip |-> FALSE,
       value |-> LocalizedV(defaultLanguage, toText(rawValue)), error |-> ""]
  ELSE
    LET Coerced(parsed) ==
          [ok |-> parsed.ok, skip |-> FALSE, value |-> parsed.value,
           error |-> parsed.error]
    IN Coerced(CASE attribute.type = 2 -> parseBoolean(rawValue)
                 [] attribute.type = 3 -> parseInteger(rawValue)
                 [] attribute.type = 4 -> parseFloatNumber(rawValue)
                 [] OTHER -> Ok(StrV(toText(rawValue))))


(***************************************************************************)
(* Sheet and header contract (excelImportTemplate.js)                      *)
(***************************************************************************)
PRODUCT_SHEETS == <<"TCT_Router_Bit", "Insert_Tool", "Countersink">>

SHEETS == [CONFIG |-> "Import_Config", GROUPS |-> "Attribute_Groups",
           ATTRIBUTES |-> "Attributes", TYPES |-> "Types",
           TYPE_GROUP_BINDINGS |-> "Type_Group_Bindings",
           ITEM_PARENTS |-> "Item_Parents"]

CONFIG_HEADERS == <<"key", "value">>
GROUP_HEADERS == <<"identifier", "name_en", "order", "visible", "options_json">>
ATTRIBUTE_HEADERS ==
  <<"identifier", "name_en", "type_code", "groups_csv", "order",
    "language_dependent", "rich_text", "multi_line", "pattern",
    "lov_identifier", "options_json", "valid_types_csv", "visible_types_csv">>
TYPE_HEADERS ==
  <<"identifier", "name_en", "parent_identifier", "icon", "icon_color", "file">>
TYPE_GROUP_BINDING_HEADERS == <<"group_identifier", "type_identifier", "valid", "visible">>
ITEM_BASE_HEADERS ==
  <<"identifier", "name_en", "type_identifier", "parent_identifier",
    "values_json", "channels_json">>

JsonHeaders == {"options_json", "values_json", "channels_json"}

VALID_IMPORT_MODES ==
  { <<"C","R","E","A","T","E","_","O","N","L","Y">>,
    <<"U","P","D","A","T","E","_","O","N","L","Y">>,
    <<"C","R","E","A","T","E","_","U","P","D","A","T","E">> }
VALID_ERROR_PROCESSING ==
  { <<"P","R","O","C","E","S","S","_","W","A","R","N">>,
    <<"W","A","R","N","_","R","E","J","E","C","T","E","D">> }
ATTRIBUTE_TYPE_CODES == 1..8

(***************************************************************************)
(* Sheet reader.  A sheet is [exists, headers, attrHeaders, rows]: headers *)
(* the set of (trimmed) header names other than attr: columns, attrHeaders *)
(* the texts that follow "attr:" in the attr: columns, in column order,    *)
(* rows the data rows that sheet_to_json returns (blankrows:false).  A row *)
(* is a record of cells by header name, with attr the cells of the attr:   *)
(* columns.  Data row i has rowNumber i + 1.                               *)
(***************************************************************************)
AbsentSheet == [exists |-> FALSE, headers |-> {}, attrHeaders |-> <<>>, rows |-> <<>>]

\* requiredHeaders.filter((header) => !headerMap.has(header))
MissingHeaders(sheet, requiredHeaders) ==
  SelectSeq(requiredHeaders, LAMBDA h : h \notin sheet.headers)

\* rowObject[header]: the cell text, or undefined under a header the sheet lacks
Data(sheet, row, header) ==
  IF header \in sheet.headers THEN StrV(row[header]) ELSE Undefined

\* the same for a *_json column; undefined and "" both parse as blank
JsonData(sheet, row, header) ==
  IF header \in sheet.headers THEN row[header] ELSE BlankJson

parseSheetWithHeaders(workbook, sheetName, requiredHeaders) ==
  LET sheet == workbook[sheetName] IN
  IF ~sheet.exists
    THEN [exists |-> FALSE, sheet |-> AbsentSheet, missingHeaders |-> requiredHeaders]
    ELSE [exists |-> TRUE, sheet |-> sheet,
          missingHeaders |-> MissingHeaders(sheet, requiredHeaders)]

rowHasAnyValue(sheet, row, headers) ==
  \E i \in DOMAIN headers :
    IF headers[i] \in JsonHeaders
      THEN JsonData(sheet, row, headers[i]).kind # "blank"
      ELSE ~isBlank(Data(sheet, row, headers[i]))

(***************************************************************************)
(* Issue accumulator.  row 0 stands for null; field is [name, key], key    *)
(* the variable part of a field name (an attr: header, a values_json key); *)
(* message is [text, args], args the identifiers the message quotes.       *)
(***************************************************************************)
Field(name) == [name |-> name, key |-> <<>>]
KeyField(name, key) == [name |-> name, key |-> key]
Msg(text) == [text |-> text, args |-> <<>>]
MsgArgs(text, args) == [text |-> text, args |-> args]

addIssue(target, severity, sheet, row, field, message) ==
  Append(target, [severity |-> severity, sheet |-> sheet, row |-> row,
                  field |-> field, message |-> message])

\* faulty variant of addMissingHeaderIssues: the header issues go to the front of
\* the list
addMissingHeaderIssuesFirst(issues, sheetName, missing) ==
  [h \in 1..Len(missing) |->
     addIssue(<<>>, "error", sheetName, 1, Field(missing[h]),
              Msg("Missing required header"))[1]] \o issues

\* parsed.missingHeaders.forEach(addIssue(... 1, header, "Missing required header"))
RECURSIVE addMissingHeaderIssues(_, _, _)
addMissingHeaderIssues(issues, sheetName, missing) ==
  IF missing = <<>> THEN issues
  ELSE addMissingHeaderIssues(
         addIssue(issues, "error", sheetName, 1, Field(Head(missing)),
                  Msg("Missing required header")),
         sheetName, Tail(missing))

allSheetNames ==
  <<SHEETS.CONFIG, SHEETS.GROUPS, SHEETS.ATTRIBUTES, SHEETS.TYPES,
    SHEETS.TYPE_GROUP_BINDINGS, SHEETS.ITEM_PARENTS>> \o PRODUCT_SHEETS

RECURSIVE ensureSheetsFrom(_, _, _)
ensureSheetsFrom(workbook, issues, requiredSheets) ==
  IF requiredSheets = <<>> THEN issues
  ELSE ensureSheetsFrom(
         workbook,
         IF workbook[Head(requiredSheets)].exists THEN issues
         ELSE addIssue(issues, "error", Head(requiredSheets), 0, Field("sheet"),
                       Msg("Sheet is required but missing")),
         Tail(requiredSheets))

ensureRequiredSheets(workbook, issues) ==
  ensureSheetsFrom(workbook, issues, allSheetNames)


(***************************************************************************)
(* parseConfig                                                             *)
(***************************************************************************)
DefaultMode == <<"C","R","E","A","T","E","_","U","P","D","A","T","E">>
DefaultErrors == <<"P","R","O","C","E","S","S","_","W","A","R","N">>
DefaultLanguage == <<"e","n">>

IsLowerLetter(c) == IndexOf(LowerChars, c) # 0

\* /^[a-z]{2}(-[a-z]{2})?$/.test(text)
LooksLikeLanguage(text) ==
  \/ Len(text) = 2 /\ IsLowerLetter(text[1]) /\ IsLowerLetter(text[2])
  \/ /\ Len(text) = 5 /\ IsLowerLetter(text[1]) /\ IsLowerLetter(text[2])
     /\ text[3] = "-" /\ IsLowerLetter(text[4]) /\ IsLowerLetter(text[5])

\* kv.get(key) || fallback: an absent key and an empty value both fall back
KvGet(kv, key, fallback) ==
  IF key \in DOMAIN kv /\ kv[key] # <<>> THEN kv[key] ELSE fallback

configRow(acc, rowNumber, sheet, row) ==
  LET Row(key, value) ==
        IF key = <<>>
          THEN [acc EXCEPT !.issues =
                  addIssue(@, "error", SHEETS.CONFIG, rowNumber, Field("key"),
                           Msg("Key is required"))]
          ELSE [acc EXCEPT !.kv = (key :> value) @@ @]
  IN IF ~rowHasAnyValue(sheet, row, CONFIG_HEADERS) THEN acc
     ELSE Row(toLowerCase(toText(Data(sheet, row, "key"))),
              toText(Data(sheet, row, "value")))

RECURSIVE configRows(_, _, _)
configRows(sheet, i, acc) ==
  IF i > Len(sheet.rows) THEN acc
  ELSE configRows(sheet, i + 1, configRow(acc, i + 1, sheet, sheet.rows[i]))

\* the three checks that follow the rows, then the returned config
configChecks(issues, mode, errors, defaultLanguage) ==
  LET Checked(issues3) ==
        [config |-> [mode |-> mode, errors |-> errors,
                     defaultLanguage |-> defaultLanguage],
         issues |-> IF LooksLikeLanguage(defaultLanguage) THEN issues3
                    ELSE addIssue(issues3, "warning", SHEETS.CONFIG, 0,
                           Field("default_language"),
                           Msg("default_language should look like en or en-us"))]
      ModeChecked(issues2) ==
        Checked(IF errors \in VALID_ERROR_PROCESSING THEN issues2
                ELSE addIssue(issues2, "error", SHEETS.CONFIG, 0, Field("errors"),
                       Msg("errors must be PROCESS_WARN or WARN_REJECTED")))
  IN ModeChecked(IF mode \in VALID_IMPORT_MODES THEN issues
                 ELSE addIssue(issues, "error", SHEETS.CONFIG, 0, Field("mode"),
                        Msg("mode must be CREATE_ONLY, UPDATE_ONLY, or CREATE_UPDATE")))

parseConfig(workbook, issues) ==
  LET Rows(acc) ==
        configChecks(acc.issues,
          toUpperCase(KvGet(acc.kv, <<"m","o","d","e">>, DefaultMode)),
          toUpperCase(KvGet(acc.kv, <<"e","r","r","o","r","s">>, DefaultErrors)),
          toLowerCase(KvGet(acc.kv,
            <<"d","e","f","a","u","l","t","_","l","a","n","g","u","a","g","e">>,
            DefaultLanguage)))
      Parsed(parsed) ==
        IF ~parsed.exists THEN
          [config |-> [mode |-> DefaultMode, errors |-> DefaultErrors,
                       defaultLanguage |-> DefaultLanguage],
           issues |-> issues]
        ELSE Rows(configRows(parsed.sheet, 1,
                    [kv |-> <<>>,
                     issues |-> addMissingHeaderIssues(issues, SHEETS.CONFIG,
                                                       parsed.missingHeaders)]))
  IN Parsed(parseSheetWithHeaders(workbook, SHEETS.CONFIG, CONFIG_HEADERS))

(***************************************************************************)
(* parseAttributeGroups.  A request is [identifier, name, order, visible,  *)
(* options]; order and visible are Undefined, and options <<>>, when the   *)
(* code leaves the property out.  byIdentifier is a function on the keys.  *)
(***************************************************************************)
groupRow(acc, rowNumber, sheet, row, config) ==
  LET Err(field, message) ==
        [acc EXCEPT !.issues =
           addIssue(@, "error", SHEETS.GROUPS, rowNumber, Field(field), Msg(message))]
      Emit(request) ==
        [acc EXCEPT !.byIdentifier = (request.identifier :> request) @@ @,
                    !.payload = Append(@, request)]
      Row(identifier, name, orderText, visibleText, parsedOrder, parsedVisible,
          optionsParsed) ==
        IF identifier = <<>> THEN Err("identifier", "identifier is required")
        ELSE IF name = <<>> THEN Err("name_en", "name_en is required")
        ELSE IF identifier \in DOMAIN acc.byIdentifier
          THEN Err("identifier", "Duplicate group identifier")
        ELSE IF orderText # <<>> /\ ~parsedOrder.ok THEN Err("order", parsedOrder.error)
        ELSE IF visibleText # <<>> /\ ~parsedVisible.ok
          THEN Err("visible", parsedVisible.error)
        ELSE IF ~optionsParsed.ok THEN Err("options_json", optionsParsed.error)
        ELSE Emit([identifier |-> identifier,
                   name |-> LocalizedV(config.defaultLanguage, name),
                   order |-> IF orderText # <<>> THEN parsedOrder.value ELSE Undefined,
                   visible |-> IF visibleText # <<>> THEN parsedVisible.value
                               ELSE Undefined,
                   options |-> optionsParsed.value])
  IN IF ~rowHasAnyValue(sheet, row, GROUP_HEADERS) THEN acc
     ELSE Row(normalizeIdentifier(Data(sheet, row, "identifier")),
              toText(Data(sheet, row, "name_en")),
              toText(Data(sheet, row, "order")),
              toText(Data(sheet, row, "visible")),
              parseInteger(StrV(toText(Data(sheet, row, "order")))),
              parseBoolean(StrV(toText(Data(sheet, row, "visible")))),
              parseJsonObject(JsonData(sheet, row, "options_json"), TRUE))

\* faulty variant of groupRows: the identifiers of earlier rows are forgotten
RECURSIVE groupRowsForgetful(_, _, _, _)
groupRowsForgetful(sheet, i, acc, config) ==
  IF i > Len(sheet.rows) THEN acc
  ELSE groupRowsForgetful(sheet, i + 1,
         groupRow([acc EXCEPT !.byIdentifier = <<>>], i + 1, sheet, sheet.rows[i], config),
         config)

RECURSIVE groupRows(_, _, _, _)
groupRows(sheet, i, acc, config) ==
  IF i > Len(sheet.rows) THEN acc
  ELSE groupRows(sheet, i + 1, groupRow(acc, i + 1, sheet, sheet.rows[i], config), config)

parseAttributeGroups(workbook, config, issues) ==
  LET Parsed(parsed) ==
        IF ~parsed.exists
          THEN [payload |-> <<>>, byIdentifier |-> <<>>, issues |-> issues]
          ELSE groupRows(parsed.sheet, 1,
                 [payload |-> <<>>, byIdentifier |-> <<>>,
                  issues |-> addMissingHeaderIssues(issues, SHEETS.GROUPS,
                                                    parsed.missingHeaders)],
                 config)
  IN Parsed(parseSheetWithHeaders(workbook, SHEETS.GROUPS, GROUP_HEADERS))

(***************************************************************************)
(* parseTypes.  A request is [identifier, name, parentIdentifier, icon,    *)
(* iconColor, file]; a text is <<>>, and file Undefined, when the code     *)
(* leaves the property out.                                                *)
(***************************************************************************)
typeRow(acc, rowNumber, sheet, row, config) ==
  LET Err(field, message) ==
        [acc EXCEPT !.issues =
           addIssue(@, "error", SHEETS.TYPES, rowNumber, Field(field), Msg(message))]
      Emit(request) ==
        [acc EXCEPT !.byIdentifier = (request.identifier :> request) @@ @,
                    !.payload = Append(@, request)]
      Row(identifier, name, fileCell, parsedFile) ==
        IF identifier = <<>> THEN Err("identifier", "identifier is required")
        ELSE IF name = <<>> THEN Err("name_en", "name_en is required")
        ELSE IF identifier \in DOMAIN acc.byIdentifier
          THEN Err("identifier", "Duplicate type identifier")
        ELSE IF ~isBlank(fileCell) /\ ~parsedFile.ok THEN Err("file", parsedFile.error)
        ELSE Emit([identifier |-> identifier,
                   name |-> LocalizedV(config.defaultLanguage, name),
                   parentIdentifier |->
                     normalizeIdentifier(Data(sheet, row, "parent_identifier")),
                   icon |-> toText(Data(sheet, row, "icon")),
                   iconColor |-> toText(Data(sheet, row, "icon_color")),
                   file |-> IF ~isBlank(fileCell) THEN parsedFile.value ELSE Undefined])
  IN IF ~rowHasAnyValue(sheet, row, TYPE_HEADERS) THEN acc
     ELSE Row(normalizeIdentifier(Data(sheet, row, "identifier")),
              toText(Data(sheet, row, "name_en")),
              Data(sheet, row, "file"),
              parseBoolean(Data(sheet, row, "file")))

RECURSIVE typeRows(_, _, _, _)
typeRows(sheet, i, acc, config) ==
  IF i > Len(sheet.rows) THEN acc
  ELSE typeRows(sheet, i + 1, typeRow(acc, i + 1, sheet, sheet.rows[i], config), config)

\* faulty variant of typeParentCheck: an unresolved parent is an error
typeParentCheckStrict(issues, typeRequest, byIdentifier) ==
  LET SelfCheck(issues1) ==
        IF typeRequest.parentIdentifier = typeRequest.identifier
          THEN addIssue(issues1, "error", SHEETS.TYPES, 0, Field("parent_identifier"),
                 MsgArgs("Type cannot reference itself as parent",
                         <<typeRequest.identifier>>))
          ELSE issues1
  IN SelfCheck(
       IF typeRequest.parentIdentifier # <<>>
          /\ typeRequest.parentIdentifier \notin DOMAIN byIdentifier
         THEN addIssue(issues, "error", SHEETS.TYPES, 0, Field("parent_identifier"),
                MsgArgs("Parent type is not defined in this workbook",
                        <<typeRequest.parentIdentifier>>))
         ELSE issues)

\* payload.forEach: the unresolved-parent warning, then the self-parent error
typeParentCheck(issues, typeRequest, byIdentifier) ==
  LET SelfCheck(issues1) ==
        IF typeRequest.parentIdentifier = typeRequest.identifier
          THEN addIssue(issues1, "error", SHEETS.TYPES, 0, Field("parent_identifier"),
                 MsgArgs("Type cannot reference itself as parent",
                         <<typeRequest.identifier>>))
          ELSE issues1
  IN SelfCheck(
       IF typeRequest.parentIdentifier # <<>>
          /\ typeRequest.parentIdentifier \notin DOMAIN byIdentifier
         THEN addIssue(issues, "warning", SHEETS.TYPES, 0, Field("parent_identifier"),
                MsgArgs("Parent type is not defined in this workbook",
                        <<typeRequest.parentIdentifier>>))
         ELSE issues)

RECURSIVE typeParentChecks(_, _, _, _)
typeParentChecks(issues, payload, i, byIdentifier) ==
  IF i > Len(payload) THEN issues
  ELSE typeParentChecks(typeParentCheck(issues, payload[i], byIdentifier),
                        payload, i + 1, byIdentifier)

parseTypes(workbook, config, issues) ==
  LET Rows(acc) ==
        [acc EXCEPT !.issues = typeParentChecks(@, acc.payload, 1, acc.byIdentifier)]
      Parsed(parsed) ==
        IF ~parsed.exists
          THEN [payload |-> <<>>, byIdentifier |-> <<>>, issues |-> issues]
          ELSE Rows(typeRows(parsed.sheet, 1,
                      [payload |-> <<>>, byIdentifier |-> <<>>,
                       issues |-> addMissingHeaderIssues(issues, SHEETS.TYPES,
                                                         parsed.missingHeaders)],
                      config))
  IN Parsed(parseSheetWithHeaders(workbook, SHEETS.TYPES, TYPE_HEADERS))

(***************************************************************************)
(* parseTypeGroupBindings.  bindingMap maps a group identifier to the list *)
(* of its bindings [typeIdentifier, valid, visible], in row order.         *)
(***************************************************************************)
bindingRow(acc, rowNumber, sheet, row, groupIdentifiers, typeIdentifiers) ==
  LET Add(issues, severity, field, message) ==
        addIssue(issues, severity, SHEETS.TYPE_GROUP_BINDINGS, rowNumber, Field(field),
                 message)
      Bind(issues2, groupIdentifier, current, binding) ==
        [acc EXCEPT !.issues = issues2,
                    !.bindingMap = (groupIdentifier :> Append(current, binding)) @@ @]
      \* issues2: the issues after the two not-defined warnings
      Checked(issues2, groupIdentifier, typeIdentifier, validParsed, visibleParsed) ==
        IF ~validParsed.ok THEN
          [acc EXCEPT !.issues = Add(issues2, "error", "valid", Msg(validParsed.error))]
        ELSE IF ~visibleParsed.ok THEN
          [acc EXCEPT !.issues = Add(issues2, "error", "visible",
                                     Msg(visibleParsed.error))]
        ELSE Bind(issues2, groupIdentifier,
                  IF groupIdentifier \in DOMAIN acc.bindingMap
                    THEN acc.bindingMap[groupIdentifier] ELSE <<>>,
                  [typeIdentifier |-> typeIdentifier, valid |-> validParsed.value.b,
                   visible |-> visibleParsed.value.b])
      TypeWarned(issues1, typeIdentifier) ==
        IF typeIdentifier \in typeIdentifiers THEN issues1
        ELSE Add(issues1, "warning", "type_identifier",
                 MsgArgs("Type is not defined in Types sheet", <<typeIdentifier>>))
      GroupWarned(groupIdentifier) ==
        IF groupIdentifier \in groupIdentifiers THEN acc.issues
        ELSE Add(acc.issues, "warning", "group_identifier",
                 MsgArgs("Group is not defined in Attribute_Groups sheet",
                         <<groupIdentifier>>))
      Flag(cell) == IF isBlank(cell) THEN Ok(BoolV(TRUE)) ELSE parseBoolean(cell)
      Row(groupIdentifier, typeIdentifier) ==
        IF groupIdentifier = <<>> THEN
          [acc EXCEPT !.issues = Add(@, "error", "group_identifier",
                                     Msg("group_identifier is required"))]
        ELSE IF typeIdentifier = <<>> THEN
          [acc EXCEPT !.issues = Add(@, "error", "type_identifier",
                                     Msg("type_identifier is required"))]
        ELSE Checked(TypeWarned(GroupWarned(groupIdentifier), typeIdentifier),
                     groupIdentifier, typeIdentifier,
                     Flag(Data(sheet, row, "valid")), Flag(Data(sheet, row, "visible")))
  IN IF ~rowHasAnyValue(sheet, row, TYPE_GROUP_BINDING_HEADERS) THEN acc
     ELSE Row(normalizeIdentifier(Data(sheet, row, "group_identifier")),
              normalizeIdentifier(Data(sheet, row, "type_identifier")))

RECURSIVE bindingRows(_, _, _, _, _)
bindingRows(sheet, i, acc, groupIdentifiers, typeIdentifiers) ==
  IF i > Len(sheet.rows) THEN acc
  ELSE bindingRows(sheet, i + 1,
         bindingRow(acc, i + 1, sheet, sheet.rows[i], groupIdentifiers, typeIdentifiers),
         groupIdentifiers, typeIdentifiers)

parseTypeGroupBindings(workbook, groupIdentifiers, typeIdentifiers, issues) ==
  LET Parsed(parsed) ==
        IF ~parsed.exists THEN [bindingMap |-> <<>>, issues |-> issues]
        ELSE bindingRows(parsed.sheet, 1,
               [bindingMap |-> <<>>,
                issues |-> addMissingHeaderIssues(issues, SHEETS.TYPE_GROUP_BINDINGS,
                                                  parsed.missingHeaders)],
               groupIdentifiers, typeIdentifiers)
  IN Parsed(parseSheetWithHeaders(workbook, SHEETS.TYPE_GROUP_BINDINGS,
                                  TYPE_GROUP_BINDING_HEADERS))

(***************************************************************************)
(* parseAttributes.  A request is [identifier, name, groups, type,         *)
(* languageDependent, richText, multiLine, order, pattern, lov, valid,     *)
(* visible, options]; valid and visible are the lists [...validSet] and    *)
(* [...visibleSet] (<<>> when the property is left out).  byIdentifier     *)
(* maps an identifier to the projection [identifier, type,                 *)
(* languageDependent] that item parsing reads.                             *)
(***************************************************************************)
\* faulty variant of foldBindings: the valid and visible flags are not read
RECURSIVE foldBindingsUnflagged(_, _, _)
foldBindingsUnflagged(sets, bindings, i) ==
  IF i > Len(bindings) THEN sets
  ELSE foldBindingsUnflagged(
         [validSet |-> SetAdd(sets.validSet, bindings[i].typeIdentifier),
          visibleSet |-> SetAdd(sets.visibleSet, bindings[i].typeIdentifier)],
         bindings, i + 1)

\* for (const binding of bindings): add the type to the sets the binding allows
RECURSIVE foldBindings(_, _, _)
foldBindings(sets, bindings, i) ==
  IF i > Len(bindings) THEN sets
  ELSE foldBindings(
         [validSet |-> IF bindings[i].valid
                         THEN SetAdd(sets.validSet, bindings[i].typeIdentifier)
                         ELSE sets.validSet,
          visibleSet |-> IF bindings[i].visible
                           THEN SetAdd(sets.visibleSet, bindings[i].typeIdentifier)
                           ELSE sets.visibleSet],
         bindings, i + 1)

\* for (const groupIdentifier of groups): bindingMap.get(groupIdentifier) || []
RECURSIVE foldGroups(_, _, _, _)
foldGroups(sets, groups, i, bindingMap) ==
  IF i > Len(groups) THEN sets
  ELSE foldGroups(
         foldBindings(sets,
                      IF groups[i] \in DOMAIN bindingMap THEN bindingMap[groups[i]] ELSE <<>>,
                      1),
         groups, i + 1, bindingMap)

\* for (const typeIdentifier of [...validSet, ...visibleSet]): warn if not a type
RECURSIVE addUnknownTypeWarnings(_, _, _, _)
addUnknownTypeWarnings(issues, rowNumber, typeIdentifiers, typeMap) ==
  IF typeIdentifiers = <<>> THEN issues
  ELSE addUnknownTypeWarnings(
         IF Head(typeIdentifiers) \in DOMAIN typeMap THEN issues
         ELSE addIssue(issues, "warning", SHEETS.ATTRIBUTES, rowNumber,
                       Field("valid_types_csv"),
                       MsgArgs("Type is not in Types sheet", <<Head(typeIdentifiers)>>)),
         rowNumber, Tail(typeIdentifiers), typeMap)

attributeRow(acc, rowNumber, sheet, row, config, groupMap, typeMap, bindingMap) ==
  LET Err(field, message) ==
        [acc EXCEPT !.issues =
           addIssue(@, "error", SHEETS.ATTRIBUTES, rowNumber, Field(field), message)]
      Flag(cell) == IF isBlank(cell) THEN Ok(BoolV(FALSE)) ELSE parseBoolean(cell)
      Emit(request, sets) ==
        [acc EXCEPT
           !.issues = addUnknownTypeWarnings(@, rowNumber,
                        sets.validSet \o sets.visibleSet, typeMap),
           !.byIdentifier =
             (request.identifier :>
                [identifier |-> request.identifier, type |-> request.type,
                 languageDependent |-> request.languageDependent]) @@ @,
           !.payload = Append(@, [request EXCEPT !.valid = sets.validSet,
                                                 !.visible = sets.visibleSet])]
      \* the checks that follow the group checks
      Rest(identifier, name, parsedType, groups, orderCell, parsedOrder,
           languageDependentParsed, richTextParsed, multiLineParsed, optionsParsed) ==
        IF ~isBlank(orderCell) /\ ~parsedOrder.ok
          THEN Err("order", Msg(parsedOrder.error))
        ELSE IF ~languageDependentParsed.ok
          THEN Err("language_dependent", Msg(languageDependentParsed.error))
        ELSE IF ~richTextParsed.ok THEN Err("rich_text", Msg(richTextParsed.error))
        ELSE IF ~multiLineParsed.ok THEN Err("multi_line", Msg(multiLineParsed.error))
        ELSE IF ~optionsParsed.ok THEN Err("options_json", Msg(optionsParsed.error))
        ELSE Emit([identifier |-> identifier,
                   name |-> LocalizedV(config.defaultLanguage, name),
                   groups |-> groups,
                   type |-> parsedType.value.m,
                   languageDependent |-> languageDependentParsed.value.b,
                   richText |-> richTextParsed.value.b,
                   multiLine |-> multiLineParsed.value.b,
                   order |-> IF ~isBlank(orderCell) THEN parsedOrder.value
                             ELSE Undefined,
                   pattern |-> toText(Data(sheet, row, "pattern")),
                   lov |-> normalizeIdentifier(Data(sheet, row, "lov_identifier")),
                   valid |-> <<>>,
                   visible |-> <<>>,
                   options |-> optionsParsed.value],
                  foldGroups(
                    [validSet |->
                       NewSet(parseCsvList(Data(sheet, row, "valid_types_csv"))),
                     visibleSet |->
                       NewSet(parseCsvList(Data(sheet, row, "visible_types_csv")))],
                    groups, 1, bindingMap))
      Row(identifier, name, typeRaw, parsedType, groups, unknownGroups) ==
        IF identifier = <<>> THEN Err("identifier", Msg("identifier is required"))
        ELSE IF name = <<>> THEN Err("name_en", Msg("name_en is required"))
        ELSE IF typeRaw = <<>> THEN Err("type_code", Msg("type_code is required"))
        ELSE IF identifier \in DOMAIN acc.byIdentifier
          THEN Err("identifier", Msg("Duplicate attribute identifier"))
        ELSE IF ~parsedType.ok \/ parsedType.value.m \notin ATTRIBUTE_TYPE_CODES
          THEN Err("type_code", Msg("type_code must be one of 1..8"))
        ELSE IF groups = <<>>
          THEN Err("groups_csv", Msg("At least one group identifier is required"))
        ELSE IF unknownGroups # <<>>
          THEN Err("groups_csv", MsgArgs("Unknown group identifiers", unknownGroups))
        ELSE Rest(identifier, name, parsedType, groups,
                  Data(sheet, row, "order"),
                  parseInteger(Data(sheet, row, "order")),
                  Flag(Data(sheet, row, "language_dependent")),
                  Flag(Data(sheet, row, "rich_text")),
                  Flag(Data(sheet, row, "multi_line")),
                  parseJsonObject(JsonData(sheet, row, "options_json"), TRUE))
      Groups(identifier, name, typeRaw, groups) ==
        Row(identifier, name, typeRaw, parseInteger(StrV(typeRaw)), groups,
            SelectSeq(groups, LAMBDA g : g \notin DOMAIN groupMap))
  IN IF ~rowHasAnyValue(sheet, row, ATTRIBUTE_HEADERS) THEN acc
     ELSE Groups(normalizeIdentifier(Data(sheet, row, "identifier")),
                 toText(Data(sheet, row, "name_en")),
                 toText(Data(sheet, row, "type_code")),
                 parseCsvList(Data(sheet, row, "groups_csv")))

RECURSIVE attributeRows(_, _, _, _, _, _, _)
attributeRows(sheet, i, acc, config, groupMap, typeMap, bindingMap) ==
  IF i > Len(sheet.rows) THEN acc
  ELSE attributeRows(sheet, i + 1,
         attributeRow(acc, i + 1, sheet, sheet.rows[i], config, groupMap, typeMap,
                      bindingMap),
         config, groupMap, typeMap, bindingMap)

\* faulty variant of parseAttributes: every group a row names counts as declared
parseAttributesAnyGroup(workbook, config, groupMap, typeMap, bindingMap, issues) ==
  LET Named(sheet) ==
        UNION { SeqToSet(parseCsvList(Data(sheet, sheet.rows[i], "groups_csv"))) :
                  i \in DOMAIN sheet.rows }
      Parsed(parsed) ==
        IF ~parsed.exists
          THEN [payload |-> <<>>, byIdentifier |-> <<>>, issues |-> issues]
          ELSE attributeRows(parsed.sheet, 1,
                 [payload |-> <<>>, byIdentifier |-> <<>>,
                  issues |-> addMissingHeaderIssues(issues, SHEETS.ATTRIBUTES,
                                                    parsed.missingHeaders)],
                 config, [g \in Named(parsed.sheet) |-> TRUE], typeMap, bindingMap)
  IN Parsed(parseSheetWithHeaders(workbook, SHEETS.ATTRIBUTES, ATTRIBUTE_HEADERS))

parseAttributes(workbook, config, groupMap, typeMap, bindingMap, issues) ==
  LET Parsed(parsed) ==
        IF ~parsed.exists
          THEN [payload |-> <<>>, byIdentifier |-> <<>>, issues |-> issues]
          ELSE attributeRows(parsed.sheet, 1,
                 [payload |-> <<>>, byIdentifier |-> <<>>,
                  issues |-> addMissingHeaderIssues(issues, SHEETS.ATTRIBUTES,
                                                    parsed.missingHeaders)],
                 config, groupMap, typeMap, bindingMap)
  IN Parsed(parseSheetWithHeaders(workbook, SHEETS.ATTRIBUTES, ATTRIBUTE_HEADERS))

(***************************************************************************)
(* Item sheets                                                             *)
(***************************************************************************)
itemSheetNames == <<SHEETS.ITEM_PARENTS>> \o PRODUCT_SHEETS

\* parsed.rows.forEach: declared.add(identifier) for every non-empty identifier
declaredInSheet(workbook, sheetName) ==
  LET Parsed(parsed) ==
        IF ~parsed.exists THEN {}
        ELSE { normalizeIdentifier(Data(parsed.sheet, parsed.sheet.rows[i], "identifier")) :
                 i \in DOMAIN parsed.sheet.rows } \ {<<>>}
  IN Parsed(parseSheetWithHeaders(workbook, sheetName, ITEM_BASE_HEADERS))

\* faulty variant of collectDeclaredItemIdentifiers: only Item_Parents is read
collectDeclaredParentsOnly(workbook) ==
  declaredInSheet(workbook, SHEETS.ITEM_PARENTS)

collectDeclaredItemIdentifiers(workbook) ==
  UNION { declaredInSheet(workbook, itemSheetNames[i]) : i \in DOMAIN itemSheetNames }

\* rowHasAnyValue(data, parsed.headers): the attr: columns count too
itemRowHasAnyValue(sheet, row) ==
  \/ rowHasAnyValue(sheet, row, ITEM_BASE_HEADERS)
  \/ \E i \in DOMAIN sheet.attrHeaders : ~isBlank(StrV(row.attr[i]))

\* const values = { ...valuesParsed.value }: every entry, under its own key
RECURSIVE copyEntries(_, _)
copyEntries(entries, i) ==
  IF i > Len(entries) THEN <<>>
  ELSE (entries[i].key :> entries[i].value) @@ copyEntries(entries, i + 1)

\* the part of both value loops that follows the lookup of a known attribute:
\* st is [values, issues], field the issue field of this candidate value
applyCoerced(st, sheetName, rowNumber, field, attributeIdentifier, coerced) ==
  IF ~coerced.ok THEN
    [st EXCEPT !.issues =
       addIssue(@, "error", sheetName, rowNumber, field,
                Msg("Invalid value: " \o coerced.error))]
  ELSE IF ~coerced.skip THEN
    [st EXCEPT !.values = (attributeIdentifier :> coerced.value) @@ @]
  ELSE st

\* one step of for (const [valueKey, valueRaw] of Object.entries(valuesParsed.value))
valuesJsonEntry(st, sheetName, rowNumber, entry, attributeMap, config) ==
  LET Entry1(attributeIdentifier) ==
        IF attributeIdentifier \notin DOMAIN attributeMap THEN
          [st EXCEPT !.issues =
             addIssue(@, "error", sheetName, rowNumber, Field("values_json"),
                      MsgArgs("values_json contains unknown attribute", <<entry.key>>))]
        ELSE applyCoerced(st, sheetName, rowNumber,
               KeyField("values_json.", entry.key), attributeIdentifier,
               coerceAttributeValue(entry.value, attributeMap[attributeIdentifier],
                                    config.defaultLanguage))
  IN Entry1(normalizeIdentifier(StrV(entry.key)))

RECURSIVE valuesJsonEntries(_, _, _, _, _, _, _)
valuesJsonEntries(st, sheetName, rowNumber, entries, i, attributeMap, config) ==
  IF i > Len(entries) THEN st
  ELSE valuesJsonEntries(
         valuesJsonEntry(st, sheetName, rowNumber, entries[i], attributeMap, config),
         sheetName, rowNumber, entries, i + 1, attributeMap, config)

\* faulty variant of attrColumn: a blank cell is stored as the empty text
attrColumnStoreBlank(st, sheetName, rowNumber, suffix, cell, attributeMap, config) ==
  LET Column(attributeIdentifier) ==
        IF attributeIdentifier = <<>> THEN st
        ELSE IF attributeIdentifier \notin DOMAIN attributeMap THEN
          [st EXCEPT !.issues =
             addIssue(@, "error", sheetName, rowNumber, KeyField("attr:", suffix),
                      MsgArgs("Unknown attribute", <<attributeIdentifier>>))]
        ELSE IF isBlank(StrV(cell)) THEN
          [st EXCEPT !.values = (attributeIdentifier :> StrV(<<>>)) @@ @]
        ELSE applyCoerced(st, sheetName, rowNumber, KeyField("attr:", suffix),
               attributeIdentifier,
               coerceAttributeValue(StrV(cell), attributeMap[attributeIdentifier],
                                    config.defaultLanguage))
  IN Column(normalizeIdentifier(StrV(suffix)))

\* faulty variant of attrColumn: a value that values_json already gave is kept
attrColumnKeepExisting(st, sheetName, rowNumber, suffix, cell, attributeMap, config) ==
  LET Column(attributeIdentifier) ==
        IF attributeIdentifier = <<>> THEN st
        ELSE IF isBlank(StrV(cell)) THEN st
        ELSE IF attributeIdentifier \notin DOMAIN attributeMap THEN
          [st EXCEPT !.issues =
             addIssue(@, "error", sheetName, rowNumber, KeyField("attr:", suffix),
                      MsgArgs("Unknown attribute", <<attributeIdentifier>>))]
        ELSE IF attributeIdentifier \in DOMAIN st.values THEN st
        ELSE applyCoerced(st, sheetName, rowNumber, KeyField("attr:", suffix),
               attributeIdentifier,
               coerceAttributeValue(StrV(cell), attributeMap[attributeIdentifier],
                                    config.defaultLanguage))
  IN Column(normalizeIdentifier(StrV(suffix)))

\* one step of for (const header of attrHeaders); header is "attr:" + suffix
attrColumn(st, sheetName, rowNumber, suffix, cell, attributeMap, config) ==
  LET Column(attributeIdentifier) ==
        IF attributeIdentifier = <<>> THEN st
        ELSE IF isBlank(StrV(cell)) THEN st
        ELSE IF attributeIdentifier \notin DOMAIN attributeMap THEN
          [st EXCEPT !.issues =
             addIssue(@, "error", sheetName, rowNumber, KeyField("attr:", suffix),
                      MsgArgs("Unknown attribute", <<attributeIdentifier>>))]
        ELSE applyCoerced(st, sheetName, rowNumber, KeyField("attr:", suffix),
               attributeIdentifier,
               coerceAttributeValue(StrV(cell), attributeMap[attributeIdentifier],
                                    config.defaultLanguage))
  IN Column(normalizeIdentifier(StrV(suffix)))

RECURSIVE attrColumns(_, _, _, _, _, _, _)
attrColumns(st, sheetName, rowNumber, sheet, row, i, ctx) ==
  IF i > Len(sheet.attrHeaders) THEN st
  ELSE attrColumns(
         attrColumn(st, sheetName, rowNumber, sheet.attrHeaders[i], row.attr[i],
                    ctx.attributeMap, ctx.config),
         sheetName, rowNumber, sheet, row, i + 1, ctx)

\* faulty variant of parentIsSelf: an item may name itself as parent
parentIsSelfIgnored(request) == FALSE

\* if (parentIdentifier === identifier)
parentIsSelf(request) == request.parentIdentifier = request.identifier

\* A request is [identifier, typeIdentifier, name, parentIdentifier, values,
\* channels]: parentIdentifier, values and channels are <<>> when left out.
\* ctx is [config, attributeMap, typeMap, declaredItemIdentifiers].
itemRow(acc, sheetName, rowNumber, sheet, row, ctx) ==
  LET Err(a, field, message) ==
        [a EXCEPT !.issues =
           addIssue(@, "error", sheetName, rowNumber, Field(field), message)]
      \* the two value loops, then payload.push(request)
      Emit(acc2, request, valuesParsed, st2) ==
        [acc2 EXCEPT !.issues = st2.issues,
                     !.payload = Append(@, [request EXCEPT !.values = st2.values])]
      Values(acc2, request, valuesParsed, channelsParsed) ==
        IF ~valuesParsed.ok THEN Err(acc2, "values_json", Msg(valuesParsed.error))
        ELSE IF ~channelsParsed.ok
          THEN Err(acc2, "channels_json", Msg(channelsParsed.error))
        ELSE Emit(acc2, [request EXCEPT !.channels = channelsParsed.value], valuesParsed,
                  attrColumns(
                    valuesJsonEntries(
                      [values |-> copyEntries(valuesParsed.value, 1),
                       issues |-> acc2.issues],
                      sheetName, rowNumber, valuesParsed.value, 1,
                      ctx.attributeMap, ctx.config),
                    sheetName, rowNumber, sheet, row, 1, ctx))
      \* acc1: after seenItemIdentifiers.add and the unknown-type warning
      Parent(acc1, request, typeParent) ==
        IF typeParent # <<>> /\ request.parentIdentifier = <<>>
          THEN Err(acc1, "parent_identifier",
                   MsgArgs("type is child of a type, so parent_identifier is required",
                           <<request.typeIdentifier, typeParent>>))
        ELSE IF parentIsSelf(request)
          THEN Err(acc1, "parent_identifier",
                   Msg("parent_identifier cannot reference the same item identifier"))
        ELSE Values(
               IF /\ request.parentIdentifier # <<>>
                  /\ request.parentIdentifier \notin acc1.seenItemIdentifiers
                  /\ request.parentIdentifier \notin ctx.declaredItemIdentifiers
                 THEN [acc1 EXCEPT !.issues =
                         addIssue(@, "warning", sheetName, rowNumber,
                                  Field("parent_identifier"),
                                  MsgArgs("Parent item is not declared in workbook",
                                          <<request.parentIdentifier>>))]
                 ELSE acc1,
               request,
               parseJsonObject(JsonData(sheet, row, "values_json"), TRUE),
               parseJsonObject(JsonData(sheet, row, "channels_json"), TRUE))
      Row(request) ==
        IF request.identifier = <<>>
          THEN Err(acc, "identifier", Msg("identifier is required"))
        ELSE IF request.name.s = <<>> THEN Err(acc, "name_en", Msg("name_en is required"))
        ELSE IF request.typeIdentifier = <<>>
          THEN Err(acc, "type_identifier", Msg("type_identifier is required"))
        ELSE IF request.identifier \in acc.seenItemIdentifiers
          THEN Err(acc, "identifier",
                   MsgArgs("Duplicate item identifier across item sheets",
                           <<request.identifier>>))
        ELSE Parent(
               [acc EXCEPT
                  !.seenItemIdentifiers = @ \cup {request.identifier},
                  !.issues =
                    IF request.typeIdentifier \in DOMAIN ctx.typeMap THEN @
                    ELSE addIssue(@, "warning", sheetName, rowNumber,
                                  Field("type_identifier"),
                                  MsgArgs("Type is not in Types sheet",
                                          <<request.typeIdentifier>>))],
               request,
               IF request.typeIdentifier \in DOMAIN ctx.typeMap
                 THEN ctx.typeMap[request.typeIdentifier].parentIdentifier ELSE <<>>)
  IN IF ~itemRowHasAnyValue(sheet, row) THEN acc
     ELSE Row([identifier |-> normalizeIdentifier(Data(sheet, row, "identifier")),
               typeIdentifier |-> normalizeIdentifier(Data(sheet, row, "type_identifier")),
               name |-> LocalizedV(ctx.config.defaultLanguage,
                                   toText(Data(sheet, row, "name_en"))),
               parentIdentifier |->
                 normalizeIdentifier(Data(sheet, row, "parent_identifier")),
               values |-> <<>>,
               channels |-> <<>>])

\* faulty variant of itemRows: the identifiers seen so far are forgotten
RECURSIVE itemRowsForgetful(_, _, _, _, _)
itemRowsForgetful(sheetName, sheet, i, acc, ctx) ==
  IF i > Len(sheet.rows) THEN acc
  ELSE itemRowsForgetful(sheetName, sheet, i + 1,
         itemRow([acc EXCEPT !.seenItemIdentifiers = {}], sheetName, i + 1, sheet,
                 sheet.rows[i], ctx),
         ctx)

\* faulty variant of itemRows: a row that emits no item gives its identifier back
RECURSIVE itemRowsReleasing(_, _, _, _, _)
itemRowsReleasing(sheetName, sheet, i, acc, ctx) ==
  LET Keep(after) ==
        IF Len(after.payload) > Len(acc.payload) THEN after
        ELSE [after EXCEPT !.seenItemIdentifiers = acc.seenItemIdentifiers]
  IN IF i > Len(sheet.rows) THEN acc
     ELSE itemRowsReleasing(sheetName, sheet, i + 1,
            Keep(itemRow(acc, sheetName, i + 1, sheet, sheet.rows[i], ctx)), ctx)

RECURSIVE itemRows(_, _, _, _, _)
itemRows(sheetName, sheet, i, acc, ctx) ==
  IF i > Len(sheet.rows) THEN acc
  ELSE itemRows(sheetName, sheet, i + 1,
                itemRow(acc, sheetName, i + 1, sheet, sheet.rows[i], ctx), ctx)

\* faulty variant of parseItemSheet: every sheet checks duplicates against its
\* own rows only
parseItemSheetOwnNamespace(workbook, sheetName, config, attributeMap, typeMap, seenItemIdentifiers, declaredItemIdentifiers, issues) ==
  LET Parsed(parsed) ==
        IF ~parsed.exists
          THEN [payload |-> <<>>, seenItemIdentifiers |-> seenItemIdentifiers,
                issues |-> issues]
          ELSE itemRows(sheetName, parsed.sheet, 1,
                 [payload |-> <<>>, seenItemIdentifiers |-> {},
                  issues |-> addMissingHeaderIssues(issues, sheetName,
                                                    parsed.missingHeaders)],
                 [config |-> config, attributeMap |-> attributeMap, typeMap |-> typeMap,
                  declaredItemIdentifiers |-> declaredItemIdentifiers])
  IN Parsed(parseSheetWithHeaders(workbook, sheetName, ITEM_BASE_HEADERS))

\* faulty variant of parseItemSheet: the parent of the item's type is not looked up
parseItemSheetNoTypeParent(workbook, sheetName, config, attributeMap, typeMap, seenItemIdentifiers, declaredItemIdentifiers, issues) ==
  LET Parsed(parsed) ==
        IF ~parsed.exists
          THEN [payload |-> <<>>, seenItemIdentifiers |-> seenItemIdentifiers,
                issues |-> issues]
          ELSE itemRows(sheetName, parsed.sheet, 1,
                 [payload |-> <<>>, seenItemIdentifiers |-> seenItemIdentifiers,
                  issues |-> addMissingHeaderIssues(issues, sheetName,
                                                    parsed.missingHeaders)],
                 [config |-> config, attributeMap |-> attributeMap,
                  typeMap |-> [t \in DOMAIN typeMap |->
                                 [typeMap[t] EXCEPT !.parentIdentifier = <<>>]],
                  declaredItemIdentifiers |-> declaredItemIdentifiers])
  IN Parsed(parseSheetWithHeaders(workbook, sheetName, ITEM_BASE_HEADERS))

\* returns [payload, seenItemIdentifiers, issues]: the rows of this sheet that are
\* emitted, and the two collections the code updates in place
parseItemSheet(workbook, sheetName, config, attributeMap, typeMap, seenItemIdentifiers, declaredItemIdentifiers, issues) ==
  LET Parsed(parsed) ==
        IF ~parsed.exists
          THEN [payload |-> <<>>, seenItemIdentifiers |-> seenItemIdentifiers,
                issues |-> issues]
          ELSE itemRows(sheetName, parsed.sheet, 1,
                 [payload |-> <<>>, seenItemIdentifiers |-> seenItemIdentifiers,
                  issues |-> addMissingHeaderIssues(issues, sheetName,
                                                    parsed.missingHeaders)],
                 [config |-> config, attributeMap |-> attributeMap, typeMap |-> typeMap,
                  declaredItemIdentifiers |-> declaredItemIdentifiers])
  IN Parsed(parseSheetWithHeaders(workbook, sheetName, ITEM_BASE_HEADERS))

\* the product items ahead of the parent items
payloadItemsProductsFirst(parents, products) == products \o parents

\* const items = [...parentItems, ...productItems]
payloadItems(parents, products) == parents \o products

\* faulty variant of splitIssues: a warning counts as an error
splitIssuesBlocking(issues) ==
  [errors |-> issues,
   warnings |-> SelectSeq(issues, LAMBDA issue : issue.severity = "warning")]

\* faulty variant of splitIssues: the issues that carry no row are left out
splitIssuesRowsOnly(issues) ==
  [errors |-> SelectSeq(issues, LAMBDA issue : issue.severity = "error" /\ issue.row # 0),
   warnings |-> SelectSeq(issues, LAMBDA issue : issue.severity = "warning" /\ issue.row # 0)]

splitIssues(issues) ==
  [errors |-> SelectSeq(issues, LAMBDA issue : issue.severity = "error"),
   warnings |-> SelectSeq(issues, LAMBDA issue : issue.severity = "warning")]


(***************************************************************************)
(* parseAndValidateImportWorkbook as one function of the workbook: the     *)
(* value a caller gets back.  Each Through... passes on what the calls up  *)
(* to that point have produced.                                            *)
(***************************************************************************)
returnedValidation(config, groups, typeList, attributeList, items, split) ==
  [payload |-> [config |-> [mode |-> config.mode, errors |-> config.errors],
                attrGroups |-> groups, attributes |-> attributeList,
                types |-> typeList, items |-> items],
   summary |-> [attrGroups |-> Len(groups), attributes |-> Len(attributeList),
                types |-> Len(typeList), items |-> Len(items),
                errors |-> Len(split.errors), warnings |-> Len(split.warnings)],
   errors |-> split.errors,
   warnings |-> split.warnings,
   valid |-> Len(split.errors) = 0]

RECURSIVE productSheetsFrom(_, _, _, _, _, _)
productSheetsFrom(wb, k, acc, config, attributeMap, ctx) ==
  IF k > Len(PRODUCT_SHEETS) THEN acc
  ELSE LET Next(r) ==
             productSheetsFrom(wb, k + 1,
               [payload |-> acc.payload \o r.payload,
                seenItemIdentifiers |-> r.seenItemIdentifiers, issues |-> r.issues],
               config, attributeMap, ctx)
       IN Next(parseItemSheet(wb, PRODUCT_SHEETS[k], config, attributeMap, ctx.typeMap,
                              acc.seenItemIdentifiers, ctx.declared, acc.issues))

parseAndValidateImportWorkbook(wb) ==
  LET ThroughItems(c, g, t, a, parents) ==
        LET Products(p) ==
              returnedValidation(c.config, g.payload, t.payload, a.payload,
                                 payloadItems(parents.payload, p.payload),
                                 splitIssues(p.issues))
        IN Products(productSheetsFrom(wb, 1,
                      [payload |-> <<>>,
                       seenItemIdentifiers |-> parents.seenItemIdentifiers,
                       issues |-> parents.issues],
                      c.config, a.byIdentifier,
                      [typeMap |-> t.byIdentifier,
                       declared |-> collectDeclaredItemIdentifiers(wb)]))
      ThroughAttributes(c, g, t, a) ==
        ThroughItems(c, g, t, a,
          parseItemSheet(wb, SHEETS.ITEM_PARENTS, c.config, a.byIdentifier,
                         t.byIdentifier, {}, collectDeclaredItemIdentifiers(wb),
                         a.issues))
      ThroughBindings(c, g, t, b) ==
        ThroughAttributes(c, g, t,
          parseAttributes(wb, c.config, g.byIdentifier, t.byIdentifier, b.bindingMap,
                          b.issues))
      ThroughTypes(c, g, t) ==
        ThroughBindings(c, g, t,
          parseTypeGroupBindings(wb, DOMAIN g.byIdentifier, DOMAIN t.byIdentifier,
                                 t.issues))
      ThroughGroups(c, g) == ThroughTypes(c, g, parseTypes(wb, c.config, g.issues))
      ThroughConfig(c) == ThroughGroups(c, parseAttributeGroups(wb, c.config, c.issues))
  IN ThroughConfig(parseConfig(wb, ensureRequiredSheets(wb, <<>>)))

(***************************************************************************)
(* The run of parseAndValidateImportWorkbook, one step per call it makes.  *)
(* workbook is the value XLSX.read returned; the other variables are the   *)
(* locals of the function, empty until the step that assigns them.         *)
(***************************************************************************)
VARIABLES workbook, pc, issues, config, attrGroups, groupMap, types, typeMap,
          bindingMap, attributes, attributeMap, seenItemIdentifiers,
          declaredItemIdentifiers, parentItems, productItems, sheetIndex, result

\* previous holds the result of an earlier run on the same workbook; call and
\* returned are one call of a pure function and what it returned; the rest is
\* the import state of the App component: its useState values, the names of
\* the files whose call of handleImportFile is waiting for the bytes, the names
\* of the files whose call has finished, in the order of finishing, and the
\* bodies posted to /api/import/execute.
VARIABLES previous, call, returned, importFileName, importPayload, importSummary,
          importErrors, importWarnings, importStatus, importResult, importLoading,
          validations, completed, importRequests

parserVars == <<workbook, pc, issues, config, attrGroups, groupMap, types, typeMap,
                bindingMap, attributes, attributeMap, seenItemIdentifiers,
                declaredItemIdentifiers, parentItems, productItems, sheetIndex, result>>

callVars == <<call, returned>>

appVars == <<importFileName, importPayload, importSummary, importErrors, importWarnings,
             importStatus, importResult, importLoading, validations, completed,
             importRequests>>

vars == <<parserVars, previous, callVars, appVars>>

NoConfig == [mode |-> <<>>, errors |-> <<>>, defaultLanguage |-> <<>>]
NoResult == [payload |-> [config |-> [mode |-> <<>>, errors |-> <<>>],
                          attrGroups |-> <<>>, attributes |-> <<>>, types |-> <<>>,
                          items |-> <<>>],
             summary |-> [attrGroups |-> 0, attributes |-> 0, types |-> 0, items |-> 0,
                          errors |-> 0, warnings |-> 0],
             errors |-> <<>>, warnings |-> <<>>, valid |-> FALSE]

EnsureRequiredSheets ==
  /\ pc = "ensureRequiredSheets"
  /\ UNCHANGED <<previous, callVars, appVars>>
  /\ issues' = ensureRequiredSheets(workbook, issues)
  /\ pc' = "parseConfig"
  /\ UNCHANGED <<workbook, config, attrGroups, groupMap, types, typeMap, bindingMap,
                 attributes, attributeMap, seenItemIdentifiers, declaredItemIdentifiers,
                 parentItems, productItems, sheetIndex, result>>

ParseConfig ==
  /\ pc = "parseConfig"
  /\ UNCHANGED <<previous, callVars, appVars>>
  /\ LET Assign(r) == config' = r.config /\ issues' = r.issues
     IN Assign(parseConfig(workbook, issues))
  /\ pc' = "parseAttributeGroups"
  /\ UNCHANGED <<workbook, attrGroups, groupMap, types, typeMap, bindingMap,
                 attributes, attributeMap, seenItemIdentifiers, declaredItemIdentifiers,
                 parentItems, productItems, sheetIndex, result>>

ParseAttributeGroups ==
  /\ pc = "parseAttributeGroups"
  /\ UNCHANGED <<previous, callVars, appVars>>
  /\ LET Assign(r) ==
           attrGroups' = r.payload /\ groupMap' = r.byIdentifier /\ issues' = r.issues
     IN Assign(parseAttributeGroups(workbook, config, issues))
  /\ pc' = "parseTypes"
  /\ UNCHANGED <<workbook, config, types, typeMap, bindingMap,
                 attributes, attributeMap, seenItemIdentifiers, declaredItemIdentifiers,
                 parentItems, productItems, sheetIndex, result>>

\* faulty variant of ParseTypes: without a Types sheet the run goes straight to
\* the returned object
ParseTypesAborting ==
  /\ pc = "parseTypes"
  /\ UNCHANGED <<previous, callVars, appVars>>
  /\ LET Assign(r) ==
           types' = r.payload /\ typeMap' = r.byIdentifier /\ issues' = r.issues
     IN Assign(parseTypes(workbook, config, issues))
  /\ IF workbook[SHEETS.TYPES].exists
       THEN pc' = "parseTypeGroupBindings" /\ sheetIndex' = sheetIndex
       ELSE pc' = "parseProductSheets" /\ sheetIndex' = Len(PRODUCT_SHEETS) + 1
  /\ UNCHANGED <<workbook, config, attrGroups, groupMap, bindingMap,
                 attributes, attributeMap, seenItemIdentifiers, declaredItemIdentifiers,
                 parentItems, productItems, result>>

ParseTypes ==
  /\ pc = "parseTypes"
  /\ UNCHANGED <<previous, callVars, appVars>>
  /\ LET Assign(r) ==
           types' = r.payload /\ typeMap' = r.byIdentifier /\ issues' = r.issues
     IN Assign(parseTypes(workbook, config, issues))
  /\ pc' = "parseTypeGroupBindings"
  /\ UNCHANGED <<workbook, config, attrGroups, groupMap, bindingMap,
                 attributes, attributeMap, seenItemIdentifiers, declaredItemIdentifiers,
                 parentItems, productItems, sheetIndex, result>>

ParseTypeGroupBindings ==
  /\ pc = "parseTypeGroupBindings"
  /\ UNCHANGED <<previous, callVars, appVars>>
  /\ LET Assign(r) == bindingMap' = r.bindingMap /\ issues' = r.issues
     IN Assign(parseTypeGroupBindings(workbook, DOMAIN groupMap, DOMAIN typeMap, issues))
  /\ pc' = "parseAttributes"
  /\ UNCHANGED <<workbook, config, attrGroups, groupMap, types, typeMap,
                 attributes, attributeMap, seenItemIdentifiers, declaredItemIdentifiers,
                 parentItems, productItems, sheetIndex, result>>

ParseAttributes ==
  /\ pc = "parseAttributes"
  /\ UNCHANGED <<previous, callVars, appVars>>
  /\ LET Assign(r) ==
           attributes' = r.payload /\ attributeMap' = r.byIdentifier
             /\ issues' = r.issues
     IN Assign(parseAttributes(workbook, config, groupMap, typeMap, bindingMap, issues))
  /\ pc' = "collectDeclaredItemIdentifiers"
  /\ UNCHANGED <<workbook, config, attrGroups, groupMap, types, typeMap, bindingMap,
                 seenItemIdentifiers, declaredItemIdentifiers,
                 parentItems, productItems, sheetIndex, result>>

CollectDeclaredItemIdentifiers ==
  /\ pc = "collectDeclaredItemIdentifiers"
  /\ UNCHANGED <<previous, callVars, appVars>>
  /\ seenItemIdentifiers' = {}
  /\ declaredItemIdentifiers' = collectDeclaredItemIdentifiers(workbook)
  /\ pc' = "parseItemParents"
  /\ UNCHANGED <<workbook, issues, config, attrGroups, groupMap, types, typeMap,
                 bindingMap, attributes, attributeMap,
                 parentItems, productItems, sheetIndex, result>>

ParseItemParents ==
  /\ pc = "parseItemParents"
  /\ UNCHANGED <<previous, callVars, appVars>>
  /\ LET Assign(r) ==
           parentItems' = r.payload /\ seenItemIdentifiers' = r.seenItemIdentifiers
             /\ issues' = r.issues
     IN Assign(parseItemSheet(workbook, SHEETS.ITEM_PARENTS, config, attributeMap,
                              typeMap, seenItemIdentifiers, declaredItemIdentifiers,
                              issues))
  /\ sheetIndex' = 1
  /\ pc' = "parseProductSheets"
  /\ UNCHANGED <<workbook, config, attrGroups, groupMap, types, typeMap, bindingMap,
                 attributes, attributeMap, declaredItemIdentifiers, productItems, result>>

\* one callback of PRODUCT_SHEETS.flatMap
ParseProductSheet ==
  /\ pc = "parseProductSheets"
  /\ UNCHANGED <<previous, callVars, appVars>>
  /\ sheetIndex <= Len(PRODUCT_SHEETS)
  /\ LET Assign(r) ==
           productItems' = productItems \o r.payload
             /\ seenItemIdentifiers' = r.seenItemIdentifiers /\ issues' = r.issues
     IN Assign(parseItemSheet(workbook, PRODUCT_SHEETS[sheetIndex], config,
                              attributeMap, typeMap, seenItemIdentifiers,
                              declaredItemIdentifiers, issues))
  /\ sheetIndex' = sheetIndex + 1
  /\ UNCHANGED <<workbook, pc, config, attrGroups, groupMap, types, typeMap, bindingMap,
                 attributes, attributeMap, declaredItemIdentifiers, parentItems, result>>

\* splitIssues, payload, summary and the returned object
Assemble ==
  /\ pc = "parseProductSheets"
  /\ UNCHANGED <<previous, callVars, appVars>>
  /\ sheetIndex > Len(PRODUCT_SHEETS)
  /\ LET Return(items, split) ==
           result' =
             [payload |-> [config |-> [mode |-> config.mode, errors |-> config.errors],
                           attrGroups |-> attrGroups, attributes |-> attributes,
                           types |-> types, items |-> items],
              summary |-> [attrGroups |-> Len(attrGroups),
                           attributes |-> Len(attributes),
                           types |-> Len(types), items |-> Len(items),
                           errors |-> Len(split.errors),
                           warnings |-> Len(split.warnings)],
              errors |-> split.errors,
              warnings |-> split.warnings,
              valid |-> Len(split.errors) = 0]
     IN Return(payloadItems(parentItems, productItems), splitIssues(issues))
  /\ pc' = "done"
  /\ UNCHANGED <<workbook, issues, config, attrGroups, groupMap, types, typeMap,
                 bindingMap, attributes, attributeMap, seenItemIdentifiers,
                 declaredItemIdentifiers, parentItems, productItems, sheetIndex>>

Next ==
  \/ EnsureRequiredSheets
  \/ ParseConfig
  \/ ParseAttributeGroups
  \/ ParseTypes
  \/ ParseTypeGroupBindings
  \/ ParseAttributes
  \/ CollectDeclaredItemIdentifiers
  \/ ParseItemParents
  \/ ParseProductSheet
  \/ Assemble

\* faulty variant of Rerun: the issue list is shared by the two calls
RerunSharingIssues ==
  /\ pc = "done"
  /\ previous = <<>>
  /\ previous' = <<result>>
  /\ pc' = "ensureRequiredSheets"
  /\ config' = NoConfig
  /\ attrGroups' = <<>> /\ groupMap' = <<>>
  /\ types' = <<>> /\ typeMap' = <<>> /\ bindingMap' = <<>>
  /\ attributes' = <<>> /\ attributeMap' = <<>>
  /\ seenItemIdentifiers' = {} /\ declaredItemIdentifiers' = {}
  /\ parentItems' = <<>> /\ productItems' = <<>>
  /\ sheetIndex' = 0
  /\ result' = NoResult
  /\ UNCHANGED <<workbook, issues, callVars, appVars>>

\* a second call of parseAndValidateImportWorkbook on the same workbook: the
\* result of the first call is kept by the caller, every local of the function
\* is created anew, and the module holds nothing but constants
Rerun ==
  /\ pc = "done"
  /\ previous = <<>>
  /\ previous' = <<result>>
  /\ pc' = "ensureRequiredSheets"
  /\ issues' = <<>>
  /\ config' = NoConfig
  /\ attrGroups' = <<>> /\ groupMap' = <<>>
  /\ types' = <<>> /\ typeMap' = <<>> /\ bindingMap' = <<>>
  /\ attributes' = <<>> /\ attributeMap' = <<>>
  /\ seenItemIdentifiers' = {} /\ declaredItemIdentifiers' = {}
  /\ parentItems' = <<>> /\ productItems' = <<>>
  /\ sheetIndex' = 0
  /\ result' = NoResult
  /\ UNCHANGED <<workbook, callVars, appVars>>

NextRepeated == Next \/ Rerun


(***************************************************************************)
(* Workbooks.  The run starts from any workbook of the sets below: a base  *)
(* workbook that validates, with one part of it varied at a time over      *)
(* every list of at most MaxRows rows drawn from the row sets below.       *)
(***************************************************************************)
MaxRows == 2

SeqsUpTo(S, n) == UNION { [1..k -> S] : k \in 0..n }

G1 == <<"g","1">>
G1Raw == <<" ","G","1">>
G2 == <<"g","2">>
G9 == <<"g","9">>
T1 == <<"t","1">>
T1Raw == <<"T","1"," ">>
T2 == <<"t","2">>
T9 == <<"t","9">>
P1 == <<"p","1">>
P9 == <<"p","9">>
X1 == <<"x","1">>
X1Raw == <<" ","X","1">>
X2 == <<"x","2">>
AttrText == <<"a","t">>
AttrBool == <<"a","b">>
AttrInt == <<"a","i">>
AttrFloat == <<"a","f">>
AttrFloatRaw == <<"A","f"," ">>
AttrLocal == <<"a","l">>
AttrUnknown == <<"a","z">>
NameText == <<"N","m">>
Yes == <<"Y","e","s">>
No == <<"n","o">>
Maybe == <<"m","a","y","b","e">>

Sheet(headers, attrHeaders, rows) ==
  [exists |-> TRUE, headers |-> SeqToSet(headers), attrHeaders |-> attrHeaders,
   rows |-> rows]

ConfigRowOf(key, value) == [key |-> key, value |-> value]
GroupRowOf(identifier, name, order, visible, options) ==
  [identifier |-> identifier, name_en |-> name, order |-> order, visible |-> visible,
   options_json |-> options]
TypeRowOf(identifier, name, parent, file) ==
  [identifier |-> identifier, name_en |-> name, parent_identifier |-> parent,
   icon |-> <<>>, icon_color |-> <<>>, file |-> file]
BindingRowOf(group, type, valid, visible) ==
  [group_identifier |-> group, type_identifier |-> type, valid |-> valid,
   visible |-> visible]
AttributeRowOf(identifier, name, typeCode, groups, languageDependent, validTypes, visibleTypes) ==
  [identifier |-> identifier, name_en |-> name, type_code |-> typeCode,
   groups_csv |-> groups, order |-> <<>>, language_dependent |-> languageDependent,
   rich_text |-> <<>>, multi_line |-> <<>>, pattern |-> <<>>, lov_identifier |-> <<>>,
   options_json |-> BlankJson, valid_types_csv |-> validTypes,
   visible_types_csv |-> visibleTypes]
ItemRowOf(identifier, name, type, parent, values, channels, attr) ==
  [identifier |-> identifier, name_en |-> name, type_identifier |-> type,
   parent_identifier |-> parent, values_json |-> values, channels_json |-> channels,
   attr |-> attr]

Entry(key, value) == [key |-> key, value |-> value]
JsonObject(entries) == JsonCell("object", entries)

BaseConfig == Sheet(CONFIG_HEADERS, <<>>, <<>>)
BaseGroups ==
  Sheet(GROUP_HEADERS, <<>>,
        << GroupRowOf(G1, NameText, <<>>, <<>>, BlankJson),
           GroupRowOf(G2, NameText, <<"2">>, Yes, BlankJson) >>)
BaseTypes ==
  Sheet(TYPE_HEADERS, <<>>,
        << TypeRowOf(T1, NameText, <<>>, <<>>),
           TypeRowOf(T2, NameText, T1, No) >>)
BaseBindings ==
  Sheet(TYPE_GROUP_BINDING_HEADERS, <<>>,
        << BindingRowOf(G1, T1, <<>>, No),
           BindingRowOf(G2, T2, <<"0">>, <<>>) >>)
BaseAttributes ==
  Sheet(ATTRIBUTE_HEADERS, <<>>,
        << AttributeRowOf(AttrText, NameText, <<"1">>, G1, <<>>, <<>>, <<>>),
           AttributeRowOf(AttrBool, NameText, <<"2">>, G1, <<>>, <<>>, <<>>),
           AttributeRowOf(AttrInt, NameText, <<"3">>, G2, No, T2, <<>>),
           AttributeRowOf(AttrFloat, NameText, <<"4">>, <<"g","1",",","g","2">>,
                          <<>>, <<>>, <<>>),
           AttributeRowOf(AttrLocal, NameText, <<"1">>, G1, Yes, <<>>, <<>>) >>)
BaseParents ==
  Sheet(ITEM_BASE_HEADERS, <<>>,
        << ItemRowOf(P1, NameText, T1, <<>>, BlankJson, BlankJson, <<>>) >>)
BaseProducts ==
  Sheet(ITEM_BASE_HEADERS, <<AttrFloat>>,
        << ItemRowOf(X1, NameText, T2, P1, BlankJson, BlankJson,
                     << <<"1","2",".","7">> >>) >>)
EmptyProducts == Sheet(ITEM_BASE_HEADERS, <<>>, <<>>)

BaseWorkbook ==
  [name \in SeqToSet(allSheetNames) |->
     CASE name = SHEETS.CONFIG -> BaseConfig
       [] name = SHEETS.GROUPS -> BaseGroups
       [] name = SHEETS.TYPES -> BaseTypes
       [] name = SHEETS.TYPE_GROUP_BINDINGS -> BaseBindings
       [] name = SHEETS.ATTRIBUTES -> BaseAttributes
       [] name = SHEETS.ITEM_PARENTS -> BaseParents
       [] name = PRODUCT_SHEETS[1] -> BaseProducts
       [] OTHER -> EmptyProducts]

(***************************************************************************)
(* The workbook of createImportTemplateWorkbook (excelImportTemplate.js),  *)
(* as sheet_to_json hands it to the parser: numbers and flags as their     *)
(* cell text, "{}" and the values_json texts as the objects JSON.parse     *)
(* gives.  The README sheet is not read by the parser.                     *)
(***************************************************************************)
CuttingGeometry == <<"c","u","t","t","i","n","g","_","g","e","o","m","e","t","r","y">>
Commercial == <<"c","o","m","m","e","r","c","i","a","l">>
CuttingDiameter == <<"c","u","t","t","i","n","g","_","d","i","a","m","e","t","e","r">>
Material == <<"m","a","t","e","r","i","a","l">>
IsCoated == <<"i","s","_","c","o","a","t","e","d">>
ProductType == <<"p","r","o","d","u","c","t","_","t","y","p","e">>
TctRouterBit == <<"t","c","t","_","r","o","u","t","e","r","_","b","i","t">>
InsertTool == <<"i","n","s","e","r","t","_","t","o","o","l">>
CountersinkType == <<"c","o","u","n","t","e","r","s","i","n","k">>
CatalogRoot == <<"c","a","t","a","l","o","g","_","r","o","o","t","_","0","0","1">>
TextTrue == <<"T","R","U","E">>
TextFalse == <<"F","A","L","S","E">>
EmptyObject == JsonObject(<<>>)

TemplateConfig ==
  Sheet(CONFIG_HEADERS, <<>>,
        << ConfigRowOf(<<"m","o","d","e">>, <<"C","R","E","A","T","E","_","U","P","D","A","T","E">>),
           ConfigRowOf(<<"e","r","r","o","r","s">>, <<"P","R","O","C","E","S","S","_","W","A","R","N">>),
           ConfigRowOf(<<"d","e","f","a","u","l","t","_","l","a","n","g","u","a","g","e">>,
                       <<"e","n">>) >>)

TemplateGroups ==
  Sheet(GROUP_HEADERS, <<>>,
        << GroupRowOf(CuttingGeometry,
                      <<"C","u","t","t","i","n","g"," ","G","e","o","m","e","t","r","y">>,
                      <<"1","0">>, TextTrue, EmptyObject),
           GroupRowOf(Commercial,
                      <<"C","o","m","m","e","r","c","i","a","l"," ","D","a","t","a">>,
                      <<"2","0">>, TextTrue, EmptyObject) >>)

TemplateAttributeRow(identifier, name, typeCode, groups, order) ==
  [identifier |-> identifier, name_en |-> name, type_code |-> typeCode,
   groups_csv |-> groups, order |-> order, language_dependent |-> TextFalse,
   rich_text |-> TextFalse, multi_line |-> TextFalse, pattern |-> <<>>,
   lov_identifier |-> <<>>, options_json |-> EmptyObject, valid_types_csv |-> <<>>,
   visible_types_csv |-> <<>>]

TemplateAttributes ==
  Sheet(ATTRIBUTE_HEADERS, <<>>,
        << TemplateAttributeRow(CuttingDiameter,
                                <<"C","u","t","t","i","n","g"," ","D","i","a","m","e","t","e","r">>,
                                <<"4">>, CuttingGeometry, <<"1","0">>),
           TemplateAttributeRow(Material, <<"M","a","t","e","r","i","a","l">>,
                                <<"1">>, Commercial, <<"2","0">>),
           TemplateAttributeRow(IsCoated, <<"I","s"," ","C","o","a","t","e","d">>,
                                <<"2">>, Commercial, <<"3","0">>) >>)

TemplateTypeRow(identifier, name, parent, icon, iconColor) ==
  [identifier |-> identifier, name_en |-> name, parent_identifier |-> parent,
   icon |-> icon, icon_color |-> iconColor, file |-> TextFalse]

TemplateTypes ==
  Sheet(TYPE_HEADERS, <<>>,
        << TemplateTypeRow(ProductType, <<"P","r","o","d","u","c","t"," ","T","y","p","e">>, <<>>,
                           <<"s","h","a","p","e","-","o","u","t","l","i","n","e">>,
                           <<"b","l","u","e">>),
           TemplateTypeRow(TctRouterBit,
                           <<"T","C","T"," ","R","o","u","t","e","r"," ","B","i","t">>,
                           ProductType, <<"s","a","w","-","b","l","a","d","e">>,
                           <<"i","n","d","i","g","o">>),
           TemplateTypeRow(InsertTool, <<"I","n","s","e","r","t"," ","T","o","o","l">>,
                           ProductType, <<"t","o","o","l","s">>, <<"t","e","a","l">>),
           TemplateTypeRow(CountersinkType, <<"C","o","u","n","t","e","r","s","i","n","k">>,
                           ProductType, <<"d","r","i","l","l">>, <<"o","r","a","n","g","e">>) >>)

TemplateBindings ==
  Sheet(TYPE_GROUP_BINDING_HEADERS, <<>>,
        << BindingRowOf(CuttingGeometry, TctRouterBit, TextTrue, TextTrue),
           BindingRowOf(CuttingGeometry, InsertTool, TextTrue, TextTrue),
           BindingRowOf(CuttingGeometry, CountersinkType, TextTrue, TextTrue),
           BindingRowOf(Commercial, TctRouterBit, TextTrue, TextTrue),
           BindingRowOf(Commercial, InsertTool, TextTrue, TextTrue),
           BindingRowOf(Commercial, CountersinkType, TextTrue, TextTrue) >>)

TemplateParents ==
  Sheet(ITEM_BASE_HEADERS, <<>>,
        << ItemRowOf(CatalogRoot,
                     <<"C","a","t","a","l","o","g"," ","R","o","o","t"," ","0","0","1">>,
                     ProductType, <<>>, EmptyObject, EmptyObject, <<>>) >>)

\* a product sheet: PRODUCT_HEADERS and its one row
TemplateProductSheet(identifier, name, type, material, isCoated, diameter) ==
  Sheet(ITEM_BASE_HEADERS, <<CuttingDiameter>>,
        << ItemRowOf(identifier, name, type, CatalogRoot,
                     JsonObject(<< Entry(Material, StrV(material)),
                                   Entry(IsCoated, BoolV(isCoated)) >>),
                     EmptyObject, <<diameter>>) >>)

TemplateProducts ==
  << TemplateProductSheet(<<"r","o","u","t","e","r","_","b","i","t","_","0","0","1">>,
                          <<"R","o","u","t","e","r"," ","B","i","t"," ","0","0","1">>,
                          TctRouterBit, <<"C","a","r","b","i","d","e">>, TRUE,
                          <<"1","2",".","7">>),
     TemplateProductSheet(<<"i","n","s","e","r","t","_","t","o","o","l","_","0","0","1">>,
                          <<"I","n","s","e","r","t"," ","T","o","o","l"," ","0","0","1">>,
                          InsertTool, <<"S","t","e","e","l">>, FALSE, <<"8",".","5">>),
     TemplateProductSheet(<<"c","o","u","n","t","e","r","s","i","n","k","_","0","0","1">>,
                          <<"C","o","u","n","t","e","r","s","i","n","k"," ","0","0","1">>,
                          CountersinkType, <<"H","S","S">>, TRUE, <<"6",".","2">>) >>

createImportTemplateWorkbook ==
  [name \in SeqToSet(allSheetNames) |->
     CASE name = SHEETS.CONFIG -> TemplateConfig
       [] name = SHEETS.GROUPS -> TemplateGroups
       [] name = SHEETS.TYPES -> TemplateTypes
       [] name = SHEETS.TYPE_GROUP_BINDINGS -> TemplateBindings
       [] name = SHEETS.ATTRIBUTES -> TemplateAttributes
       [] name = SHEETS.ITEM_PARENTS -> TemplateParents
       [] OTHER -> TemplateProducts[IndexOf(PRODUCT_SHEETS, name)]]

With(wb, sheetName, sheet) == [wb EXCEPT ![sheetName] = sheet]

\* any set of sheets absent
WorkbooksMissingSheets ==
  { [name \in SeqToSet(allSheetNames) |->
       IF name \in absent THEN AbsentSheet ELSE BaseWorkbook[name]] :
    absent \in SUBSET SeqToSet(allSheetNames) }

\* one required header absent from one sheet
WorkbooksMissingHeader ==
  { With(BaseWorkbook, name,
         [BaseWorkbook[name] EXCEPT !.headers = @ \ {h}]) :
    name \in SeqToSet(allSheetNames), h \in SeqToSet(ATTRIBUTE_HEADERS \o TYPE_HEADERS
        \o TYPE_GROUP_BINDING_HEADERS \o ITEM_BASE_HEADERS \o CONFIG_HEADERS
        \o GROUP_HEADERS) }

\* one required header absent from one sheet, and the Types sheet or the last
\* product sheet absent
WorkbooksMissingSheetAndHeader ==
  { With(wb, name, AbsentSheet) :
    wb \in WorkbooksMissingHeader, name \in {SHEETS.TYPES, PRODUCT_SHEETS[3]} }

ConfigRowSet ==
  { ConfigRowOf(<<>>, <<>>),
    ConfigRowOf(<<>>, <<"d","e">>),
    ConfigRowOf(<<"M","o","d","e"," ">>, <<"u","p","d","a","t","e","_","o","n","l","y">>),
    ConfigRowOf(<<"m","o","d","e">>, <<"d","e","l","e","t","e">>),
    ConfigRowOf(<<"e","r","r","o","r","s">>,
                <<"W","A","R","N","_","R","E","J","E","C","T","E","D">>),
    ConfigRowOf(<<"e","r","r","o","r","s">>, <<"i","g","n","o","r","e">>),
    ConfigRowOf(<<"d","e","f","a","u","l","t","_","l","a","n","g","u","a","g","e">>,
                <<"D","E","-","d","e">>),
    ConfigRowOf(<<"d","e","f","a","u","l","t","_","l","a","n","g","u","a","g","e">>,
                <<"d","e","u">>) }

WorkbooksConfig ==
  { With(BaseWorkbook, SHEETS.CONFIG, Sheet(CONFIG_HEADERS, <<>>, rows)) :
    rows \in SeqsUpTo(ConfigRowSet, MaxRows) }

InvalidJson == JsonCell("invalid", <<>>)
NonObjectJson == JsonCell("nonobject", <<>>)

GroupRowSet ==
  { GroupRowOf(<<>>, <<>>, <<>>, <<>>, BlankJson),
    GroupRowOf(G1, NameText, <<>>, <<>>, BlankJson),
    GroupRowOf(G1Raw, NameText, <<>>, <<>>, BlankJson),
    GroupRowOf(G2, NameText, <<>>, <<>>, BlankJson),
    GroupRowOf(<<>>, NameText, <<>>, <<>>, BlankJson),
    GroupRowOf(G1, <<" ">>, <<>>, <<>>, BlankJson),
    GroupRowOf(G1, NameText, <<"7">>, Yes, BlankJson),
    GroupRowOf(G1, NameText, <<"7",".","5">>, <<>>, BlankJson),
    GroupRowOf(G2, NameText, <<>>, Maybe, BlankJson),
    GroupRowOf(G2, NameText, <<>>, <<>>, InvalidJson) }

WorkbooksGroups ==
  { With(BaseWorkbook, SHEETS.GROUPS, Sheet(GROUP_HEADERS, <<>>, rows)) :
    rows \in SeqsUpTo(GroupRowSet, MaxRows) }

TypeRowSet ==
  { TypeRowOf(<<>>, <<>>, <<>>, <<>>),
    TypeRowOf(T1, NameText, <<>>, <<>>),
    TypeRowOf(T1Raw, NameText, <<>>, Yes),
    TypeRowOf(T2, NameText, T1, <<>>),
    TypeRowOf(T2, NameText, T9, <<>>),
    TypeRowOf(T1, NameText, T1Raw, <<>>),
    TypeRowOf(T1, NameText, T2, <<>>),
    TypeRowOf(<<>>, NameText, T1, <<>>),
    TypeRowOf(T2, <<>>, T1, <<>>),
    TypeRowOf(T2, NameText, <<>>, Maybe) }

WorkbooksTypes ==
  { With(BaseWorkbook, SHEETS.TYPES, Sheet(TYPE_HEADERS, <<>>, rows)) :
    rows \in SeqsUpTo(TypeRowSet, MaxRows) }

BindingRowSet ==
  { BindingRowOf(G1, T1, <<>>, <<>>),
    BindingRowOf(G1Raw, T2, No, <<>>),
    BindingRowOf(G1, T2, <<>>, <<"0">>),
    BindingRowOf(G2, T1Raw, Yes, No),
    BindingRowOf(G2, T9, <<>>, <<>>),
    BindingRowOf(G9, T1, <<>>, <<>>),
    BindingRowOf(<<>>, T1, <<>>, <<>>),
    BindingRowOf(G1, <<>>, <<>>, <<>>),
    BindingRowOf(G1, T1, Maybe, <<>>),
    BindingRowOf(G2, T2, <<>>, Maybe) }

\* the single attribute row that the binding workbooks fold the bindings into
BoundAttributeRowSet ==
  { AttributeRowOf(AttrText, NameText, <<"1">>, G1, <<>>, <<>>, <<>>),
    AttributeRowOf(AttrText, NameText, <<"1">>, <<"G","1"," ",";","g","2">>, <<>>,
                   <<"t","2",",","T","9">>, T1),
    AttributeRowOf(AttrText, NameText, <<"1">>, G2, <<>>, T1, <<>>) }

WorkbooksBindings ==
  { With(With(BaseWorkbook, SHEETS.TYPE_GROUP_BINDINGS,
              Sheet(TYPE_GROUP_BINDING_HEADERS, <<>>, rows)),
         SHEETS.ATTRIBUTES, Sheet(ATTRIBUTE_HEADERS, <<>>, <<attribute>>)) :
    rows \in SeqsUpTo(BindingRowSet, MaxRows), attribute \in BoundAttributeRowSet }

AttributeRowSet ==
  { AttributeRowOf(<<>>, <<>>, <<>>, <<>>, <<>>, <<>>, <<>>),
    AttributeRowOf(AttrFloat, NameText, <<"4">>, G1, <<>>, <<>>, <<>>),
    AttributeRowOf(AttrFloatRaw, NameText, <<"2">>, G2, <<>>, <<>>, <<>>),
    AttributeRowOf(<<>>, NameText, <<"4">>, G9, <<>>, <<>>, <<>>),
    AttributeRowOf(AttrFloat, <<>>, <<"4">>, G1, <<>>, <<>>, <<>>),
    AttributeRowOf(AttrFloat, NameText, <<>>, G1, <<>>, <<>>, <<>>),
    AttributeRowOf(AttrBool, NameText, <<"9">>, G9, <<>>, <<>>, <<>>),
    AttributeRowOf(AttrBool, NameText, <<"2">>, G9, <<>>, <<>>, <<>>),
    AttributeRowOf(AttrBool, NameText, <<"2">>, <<"g","1",",","G","9">>, <<>>, <<>>, <<>>),
    AttributeRowOf(AttrBool, NameText, <<"2">>, <<";">>, <<>>, <<>>, <<>>),
    AttributeRowOf(AttrText, NameText, <<"1">>, G2, Maybe, <<>>, <<>>),
    AttributeRowOf(AttrText, NameText, <<"1">>, <<"g","2",",","g","1">>, Yes, T9, T1) }

WorkbooksAttributes ==
  { With(BaseWorkbook, SHEETS.ATTRIBUTES, Sheet(ATTRIBUTE_HEADERS, <<>>, rows)) :
    rows \in SeqsUpTo(AttributeRowSet, MaxRows) }

ItemRowSet ==
  { ItemRowOf(<<>>, <<>>, <<>>, <<>>, BlankJson, BlankJson, <<>>),
    ItemRowOf(X1, NameText, T1, <<>>, BlankJson, BlankJson, <<>>),
    ItemRowOf(X1Raw, NameText, T2, P1, BlankJson, BlankJson, <<>>),
    ItemRowOf(X1, NameText, T2, <<>>, BlankJson, BlankJson, <<>>),
    ItemRowOf(X2, NameText, T2, X1, BlankJson, BlankJson, <<>>),
    ItemRowOf(X2, NameText, T1, X2, BlankJson, BlankJson, <<>>),
    ItemRowOf(X2, NameText, T9, P9, BlankJson, BlankJson, <<>>),
    ItemRowOf(<<>>, NameText, T1, <<>>, BlankJson, BlankJson, <<>>),
    ItemRowOf(X1, <<>>, T1, <<>>, BlankJson, BlankJson, <<>>),
    ItemRowOf(X1, NameText, <<>>, <<>>, BlankJson, BlankJson, <<>>),
    ItemRowOf(X1, NameText, T1, <<>>, InvalidJson, BlankJson, <<>>),
    ItemRowOf(X2, NameText, T1, <<>>, BlankJson, NonObjectJson, <<>>),
    ItemRowOf(X2, NameText, T2, P9, InvalidJson, BlankJson, <<>>) }

\* the rows one per sheet, in sheet order (Item_Parents first), or all in the
\* first product sheet
ItemSheetAt(rows, from, to) ==
  Sheet(ITEM_BASE_HEADERS, <<>>, SubSeq(rows, from, IF Len(rows) < to THEN Len(rows) ELSE to))

WorkbooksItemsPerSheet ==
  { [name \in SeqToSet(allSheetNames) |->
       IF name \in SeqToSet(itemSheetNames)
         THEN ItemSheetAt(rows, IndexOf(itemSheetNames, name),
                          IndexOf(itemSheetNames, name))
         ELSE BaseWorkbook[name]] :
    rows \in SeqsUpTo(ItemRowSet, MaxRows) }

WorkbooksItemsOneSheet ==
  { [name \in SeqToSet(allSheetNames) |->
       IF name = PRODUCT_SHEETS[1] THEN ItemSheetAt(rows, 1, Len(rows))
       ELSE IF name \in SeqToSet(itemSheetNames) THEN EmptyProducts
       ELSE BaseWorkbook[name]] :
    rows \in SeqsUpTo(ItemRowSet, MaxRows) }

Text127 == <<"1","2",".","7">>
TextAbc == <<"a","b","c">>

EntrySet ==
  { Entry(AttrFloat, StrV(Text127)),
    Entry(AttrFloatRaw, NumV(5, 1)),
    Entry(AttrFloat, StrV(TextAbc)),
    Entry(AttrBool, StrV(Yes)),
    Entry(AttrBool, NumV(2, 0)),
    Entry(AttrInt, StrV(<<"-","3">>)),
    Entry(AttrInt, NumV(25, 1)),
    Entry(AttrText, NumV(5, 0)),
    Entry(AttrText, NullV),
    Entry(AttrLocal, StrV(<<" ","h","i">>)),
    Entry(AttrUnknown, StrV(TextAbc)) }

DistinctKeys(entries) ==
  \A i, j \in DOMAIN entries : entries[i].key = entries[j].key => i = j

AttrColumnSet ==
  { [header |-> AttrFloat, cell |-> <<>>],
    [header |-> AttrFloatRaw, cell |-> <<" ","3",".","5","0"," ">>],
    [header |-> AttrFloat, cell |-> TextAbc],
    [header |-> AttrLocal, cell |-> <<"h","o"," ">>],
    [header |-> AttrUnknown, cell |-> TextAbc] }

\* one product row: a values_json object and one attr: column
WorkbooksValues ==
  { With(BaseWorkbook, PRODUCT_SHEETS[1],
         Sheet(ITEM_BASE_HEADERS, <<column.header>>,
               << ItemRowOf(X1, NameText, T2, P1, JsonObject(entries), BlankJson,
                            <<column.cell>>) >>)) :
    entries \in { e \in SeqsUpTo(EntrySet, MaxRows) : DistinctKeys(e) },
    column \in AttrColumnSet }

\* no call of a pure function is under way
NoCall == call = <<>> /\ returned = <<>>

\* the useState initial values of the import panel
NoStatus == [text |-> "", tone |-> "", count |-> 0]
AppMounted ==
  /\ importFileName = ""
  /\ importPayload = <<>>
  /\ importSummary = <<>>
  /\ importErrors = <<>>
  /\ importWarnings = <<>>
  /\ importStatus = NoStatus
  /\ importResult = ""
  /\ importLoading = FALSE
  /\ validations = <<>>
  /\ importRequests = <<>>
  /\ completed = <<>>

Start(workbooks) ==
  /\ workbook \in workbooks
  /\ pc = "ensureRequiredSheets"
  /\ issues = <<>>
  /\ config = NoConfig
  /\ attrGroups = <<>>
  /\ groupMap = <<>>
  /\ types = <<>>
  /\ typeMap = <<>>
  /\ bindingMap = <<>>
  /\ attributes = <<>>
  /\ attributeMap = <<>>
  /\ seenItemIdentifiers = {}
  /\ declaredItemIdentifiers = {}
  /\ parentItems = <<>>
  /\ productItems = <<>>
  /\ sheetIndex = 0
  /\ result = NoResult
  /\ previous = <<>>
  /\ NoCall
  /\ AppMounted

Init ==
  \/ Start(WorkbooksMissingSheets)
  \/ Start(WorkbooksMissingHeader)
  \/ Start(WorkbooksMissingSheetAndHeader)
  \/ Start({createImportTemplateWorkbook})
  \/ Start(WorkbooksConfig)
  \/ Start(WorkbooksGroups)
  \/ Start(WorkbooksTypes)
  \/ Start(WorkbooksBindings)
  \/ Start(WorkbooksAttributes)
  \/ Start(WorkbooksItemsPerSheet)
  \/ Start(WorkbooksItemsOneSheet)
  \/ Start(WorkbooksValues)

Spec == Init /\ [][Next]_vars

\* the same program started on one family of workbooks
InitSheets ==
  \/ Start(WorkbooksMissingSheets)
  \/ Start(WorkbooksMissingHeader)
  \/ Start(WorkbooksMissingSheetAndHeader)
  \/ Start({createImportTemplateWorkbook})
  \/ Start(WorkbooksConfig)
SpecSheets == InitSheets /\ [][Next]_vars

InitGroups == Start(WorkbooksGroups)
SpecGroups == InitGroups /\ [][Next]_vars

InitTypes == Start(WorkbooksTypes)
SpecTypes == InitTypes /\ [][Next]_vars

InitBindings == Start(WorkbooksBindings)
SpecBindings == InitBindings /\ [][Next]_vars

InitAttributes == Start(WorkbooksAttributes)
SpecAttributes == InitAttributes /\ [][Next]_vars

InitItems ==
  \/ Start(WorkbooksItemsPerSheet)
  \/ Start(WorkbooksItemsOneSheet)
SpecItems == InitItems /\ [][Next]_vars

InitValues == Start(WorkbooksValues)
SpecValues == InitValues /\ [][Next]_vars

(***************************************************************************)
(* Single calls of the scalar coercers.  No run of the pipeline is under   *)
(* way; call is the function called with its arguments, returned what it   *)
(* gave back.                                                              *)
(***************************************************************************)
ParserIdle ==
  /\ workbook = BaseWorkbook
  /\ pc = "idle"
  /\ issues = <<>>
  /\ config = NoConfig
  /\ attrGroups = <<>> /\ groupMap = <<>>
  /\ types = <<>> /\ typeMap = <<>> /\ bindingMap = <<>>
  /\ attributes = <<>> /\ attributeMap = <<>>
  /\ seenItemIdentifiers = {} /\ declaredItemIdentifiers = {}
  /\ parentItems = <<>> /\ productItems = <<>>
  /\ sheetIndex = 0
  /\ result = NoResult
  /\ previous = <<>>

\* the spellings of a token: as written, upper case, capitalised, and
\* surrounded by blanks
Spellings(text) ==
  { text, toUpperCase(text),
    IF text = <<>> THEN text ELSE <<UpperChar(Head(text))>> \o Tail(text),
    <<" ">> \o text \o <<"\t", " ">> }

BooleanWords ==
  { <<"t","r","u","e">>, <<"1">>, <<"y","e","s">>, <<"y">>,
    <<"f","a","l","s","e">>, <<"0">>, <<"n","o">>, <<"n">>,
    <<>>, <<"o","n">>, <<"t","r","u">>, <<"2">>, <<"1",".","0">>,
    <<"y","e","s"," ","n","o">> }

LanguageEn == <<"e","n">>
LanguageDe == <<"d","e">>

\* cell texts and the values JSON.parse can put in a values_json object
RawValueSet ==
  { StrV(text) : text \in UNION { Spellings(word) : word \in BooleanWords } }
    \cup { BoolV(TRUE), BoolV(FALSE), NullV, Undefined,
           NumV(0, 0), NumV(1, 0), NumV(2, 0), NumV(0 - 1, 0), NumV(5, 1), NumV(127, 1),
           ObjV(<<"o">>), LocalizedV(LanguageDe, <<"j","a">>),
           ArrV(<<>>), ArrV(<<"y","e","s">>), ArrV(<<"1">>), ArrV(<<"a",",","b">>),
           StrV(<<"-","3">>), StrV(<<"1","2",".","7">>), StrV(<<" ","h","i"," ">>) }

NoAttribute == [identifier |-> <<>>, type |-> 0, languageDependent |-> FALSE]

AttributeSet ==
  { [identifier |-> AttrText, type |-> code, languageDependent |-> flag] :
    code \in 1..8, flag \in BOOLEAN }

CallOf(fn, value, attribute, defaultLanguage) ==
  [fn |-> fn, value |-> value, attribute |-> attribute,
   defaultLanguage |-> defaultLanguage]

ParseBooleanCalls ==
  { CallOf("parseBoolean", value, NoAttribute, <<>>) : value \in RawValueSet }

CoerceAttributeValueCalls ==
  { CallOf("coerceAttributeValue", value, attribute, language) :
    value \in RawValueSet, attribute \in AttributeSet,
    language \in {LanguageEn, LanguageDe} }

Called(calls) ==
  /\ ParserIdle
  /\ AppMounted
  /\ call \in { <<c>> : c \in calls }
  /\ returned = <<>>

ParseBooleanCall ==
  /\ call # <<>>
  /\ call[1].fn = "parseBoolean"
  /\ returned = <<>>
  /\ returned' = <<parseBoolean(call[1].value)>>
  /\ UNCHANGED <<parserVars, previous, call, appVars>>

CoerceAttributeValueCall ==
  /\ call # <<>>
  /\ call[1].fn = "coerceAttributeValue"
  /\ returned = <<>>
  /\ returned' = <<coerceAttributeValue(call[1].value, call[1].attribute,
                                        call[1].defaultLanguage)>>
  /\ UNCHANGED <<parserVars, previous, call, appVars>>

InitCoercers == Called(ParseBooleanCalls) \/ Called(CoerceAttributeValueCalls)
NextCoercers == ParseBooleanCall \/ CoerceAttributeValueCall
SpecCoercers == InitCoercers /\ [][NextCoercers]_vars

(***************************************************************************)
(* The import panel of App (App.jsx).  handleImportFile runs up to its     *)
(* first await when a file is chosen and resumes once the bytes of the     *)
(* file are there: it runs the pipeline on them and stores what it         *)
(* returned.  That part is synchronous, so no event is handled while the   *)
(* pipeline runs (pc is "idle" outside a run).  handlePushImport runs up   *)
(* to fetch on a click and resumes with the response.  A click reaches     *)
(* handlePushImport only while the button is enabled.                      *)
(***************************************************************************)
MaxSelections == 2
MaxRequests == 1

ImportFile(name, readable, wb) == [name |-> name, readable |-> readable, workbook |-> wb]

\* the files the user can choose: two that validate, one with errors, and one
\* that XLSX.read cannot open
ImportFiles ==
  { ImportFile("template.xlsx", TRUE, createImportTemplateWorkbook),
    ImportFile("base.xlsx", TRUE, BaseWorkbook),
    ImportFile("no-types.xlsx", TRUE, With(BaseWorkbook, SHEETS.TYPES, AbsentSheet)),
    ImportFile("broken.xlsx", FALSE, BaseWorkbook) }

FileNames == { file.name : file \in ImportFiles }
FileNamed(name) == CHOOSE file \in ImportFiles : file.name = name
Readable(name) == FileNamed(name).readable

\* an entry of completed: the file, and how its validation ended
Completed(name, outcome) == [file |-> name, outcome |-> outcome]

\* the call of handleImportFile that is running the pipeline
Validating(name) == [fn |-> "handleImportFile", file |-> name]

Status(text, tone, count) == [text |-> text, tone |-> tone, count |-> count]

RemoveAt(list, i) == SubSeq(list, 1, i - 1) \o SubSeq(list, i + 1, Len(list))

\* the locals of parseAndValidateImportWorkbook as a call creates them, on
\* workbook wb and with the program counter at
LocalsAt(wb, at) ==
  /\ workbook' = wb
  /\ pc' = at
  /\ issues' = <<>>
  /\ config' = NoConfig
  /\ attrGroups' = <<>> /\ groupMap' = <<>>
  /\ types' = <<>> /\ typeMap' = <<>> /\ bindingMap' = <<>>
  /\ attributes' = <<>> /\ attributeMap' = <<>>
  /\ seenItemIdentifiers' = {} /\ declaredItemIdentifiers' = {}
  /\ parentItems' = <<>> /\ productItems' = <<>>
  /\ sheetIndex' = 0
  /\ result' = NoResult

\* handleImportFile up to the first await
HandleImportFile(file) ==
  /\ pc = "idle"
  /\ Len(validations) + Len(completed) < MaxSelections
  /\ importFileName' = file
  /\ importStatus' = Status("Parsing and validating workbook...", "", 0)
  /\ importResult' = ""
  /\ validations' = Append(validations, file)
  /\ UNCHANGED <<importPayload, importSummary, importErrors, importWarnings,
                 importLoading, completed, importRequests>>
  /\ UNCHANGED <<parserVars, previous, callVars>>

\* the catch branch of handleImportFile
workbookUnreadable ==
  /\ importPayload' = <<>>
  /\ importSummary' = <<>>
  /\ importErrors' = << [sheet |-> "Workbook", row |-> 0, field |-> Field("file"),
                         message |-> Msg("error.message")] >>
  /\ importWarnings' = <<>>
  /\ importStatus' = Status("Failed to parse workbook", "error", 0)

\* the try branch of handleImportFile after the parse
validationHeld(validation) ==
  /\ importPayload' = <<validation.payload>>
  /\ importSummary' = <<validation.summary>>
  /\ importErrors' = validation.errors
  /\ importWarnings' = validation.warnings
  /\ importStatus' =
       IF validation.valid
         THEN Status("Validation passed. items ready for import.", "ok",
                     validation.summary.items)
         ELSE Status("Validation failed with error(s).", "error",
                     validation.summary.errors)

\* handleImportFile from the moment file.arrayBuffer() has resolved, for any
\* of the calls that are waiting: parseAndValidateImportWorkbook is entered,
\* or XLSX.read throws and the catch branch runs
ResumeImportFile(i) ==
  /\ pc = "idle"
  /\ i \in DOMAIN validations
  /\ validations' = RemoveAt(validations, i)
  /\ IF Readable(validations[i])
       THEN /\ LocalsAt(FileNamed(validations[i]).workbook, "ensureRequiredSheets")
            /\ call' = <<Validating(validations[i])>>
            /\ UNCHANGED <<importPayload, importSummary, importErrors, importWarnings,
                           importStatus, completed>>
       ELSE /\ workbookUnreadable
            /\ completed' = Append(completed, Completed(validations[i], "unreadable"))
            /\ UNCHANGED <<parserVars, call>>
  /\ UNCHANGED <<importFileName, importResult, importLoading, importRequests>>
  /\ UNCHANGED <<previous, returned>>

\* parseAndValidateImportWorkbook has returned to handleImportFile
StoreValidation ==
  /\ pc = "done"
  /\ call # <<>>
  /\ validationHeld(result)
  /\ completed' =
       Append(completed,
              Completed(call[1].file, IF result.valid THEN "valid" ELSE "invalid"))
  /\ call' = <<>>
  /\ LocalsAt(BaseWorkbook, "idle")
  /\ UNCHANGED <<importFileName, importResult, importLoading, importRequests,
                 validations>>
  /\ UNCHANGED <<previous, returned>>

\* the disabled attribute of the push button
PushDisabled == importPayload = <<>> \/ Len(importErrors) > 0 \/ importLoading

\* faulty variant of HandlePushImport: whatever payload is held is posted
HandlePushImportUnchecked ==
  /\ pc = "idle"
  /\ ~importLoading
  /\ importPayload # <<>>
  /\ Len(importRequests) < MaxRequests
  /\ importLoading' = TRUE
  /\ importStatus' = Status("Pushing data to PIM via import mutation...", "", 0)
  /\ importRequests' = Append(importRequests, importPayload[1])
  /\ UNCHANGED <<importFileName, importPayload, importSummary, importErrors,
                 importWarnings, importResult, validations, completed>>
  /\ UNCHANGED <<parserVars, previous, callVars>>

\* a click on the push button: handlePushImport up to fetch
HandlePushImport ==
  /\ pc = "idle"
  /\ ~PushDisabled
  /\ Len(importRequests) < MaxRequests
  /\ IF importPayload = <<>>
       THEN /\ importStatus' = Status("Load and validate workbook first", "error", 0)
            /\ UNCHANGED <<importLoading, importRequests>>
       ELSE IF Len(importErrors) > 0
         THEN /\ importStatus' = Status("Fix validation errors before import", "error", 0)
              /\ UNCHANGED <<importLoading, importRequests>>
         ELSE /\ importLoading' = TRUE
              /\ importStatus' =
                   Status("Pushing data to PIM via import mutation...", "", 0)
              /\ importRequests' = Append(importRequests, importPayload[1])
  /\ UNCHANGED <<importFileName, importPayload, importSummary, importErrors,
                 importWarnings, importResult, validations, completed>>
  /\ UNCHANGED <<parserVars, previous, callVars>>

\* what the server can answer, or fetch failing
ImportOutcomes == {"failed", "rejected", "success", "network"}

\* handlePushImport from the response on, with its finally
ResumePushImport(outcome) ==
  /\ pc = "idle"
  /\ importLoading
  /\ importResult' = IF outcome = "network" THEN importResult ELSE outcome
  /\ importStatus' =
       CASE outcome = "network" -> Status("error.message", "error", 0)
         [] outcome = "failed" -> Status("Import mutation failed", "error", 0)
         [] outcome = "rejected" ->
              Status("Import completed with rejected row(s).", "error", 1)
         [] OTHER -> Status("Import completed successfully.", "ok", 0)
  /\ importLoading' = FALSE
  /\ UNCHANGED <<importFileName, importPayload, importSummary, importErrors,
                 importWarnings, validations, completed, importRequests>>
  /\ UNCHANGED <<parserVars, previous, callVars>>

InitApp == ParserIdle /\ NoCall /\ AppMounted

NextApp ==
  \/ \E file \in FileNames : HandleImportFile(file)
  \/ \E i \in 1..MaxSelections : ResumeImportFile(i)
  \/ Next
  \/ StoreValidation
  \/ HandlePushImport
  \/ \E outcome \in ImportOutcomes : ResumePushImport(outcome)

SpecApp == InitApp /\ [][NextApp]_vars

\* two calls in a row on one workbook
InitRepeated ==
  \/ Start(WorkbooksMissingSheets)
  \/ Start({createImportTemplateWorkbook})
  \/ Start(WorkbooksTypes)
  \/ Start(WorkbooksItemsPerSheet)
SpecRepeated == InitRepeated /\ [][NextRepeated]_vars

InitEntities ==
  \/ Start(WorkbooksGroups)
  \/ Start(WorkbooksTypes)
  \/ Start(WorkbooksAttributes)
  \/ Start(WorkbooksItemsPerSheet)
  \/ Start(WorkbooksItemsOneSheet)
SpecEntities == InitEntities /\ [][Next]_vars

Done == pc = "done"


(***************************************************************************)
(* Properties of the returned result                                       *)
(***************************************************************************)
\* the issues recorded for one row of one sheet, in the order recorded
IssuesAt(sheetName, rowNumber) ==
  SelectSeq(issues, LAMBDA issue : issue.sheet = sheetName /\ issue.row = rowNumber)

ErrorsAt(sheetName, rowNumber) ==
  SelectSeq(IssuesAt(sheetName, rowNumber), LAMBDA issue : issue.severity = "error")

WarningCount == Len(SelectSeq(issues, LAMBDA issue : issue.severity = "warning"))
ErrorCount == Len(SelectSeq(issues, LAMBDA issue : issue.severity = "error"))

\* C1: the returned valid is true exactly when the run recorded no issue of
\* severity error, whatever the number of warnings it recorded.
C1_ValidIffNoError ==
  Done => (result.valid <=> ErrorCount = 0)

\* a run that ends valid although it recorded a warning
C1_Witness ==
  Done /\ result.valid /\ WarningCount > 0 /\ Len(result.warnings) = WarningCount

\* the identifiers of a list of requests are pairwise distinct, compared trimmed
\* and lowercased
DistinctIdentifiers(requests) ==
  \A i, j \in DOMAIN requests :
    normalizeIdentifier(StrV(requests[i].identifier))
      = normalizeIdentifier(StrV(requests[j].identifier)) => i = j

\* C2: in the returned payload the identifiers are pairwise distinct within
\* attrGroups, within types, within attributes and within items, the items of
\* Item_Parents and of every product sheet sharing one namespace.
C2_IdentifiersUnique ==
  Done =>
    /\ DistinctIdentifiers(result.payload.attrGroups)
    /\ DistinctIdentifiers(result.payload.types)
    /\ DistinctIdentifiers(result.payload.attributes)
    /\ DistinctIdentifiers(result.payload.items)

\* a run in which a row of a later item sheet repeated the identifier of an item
\* that an earlier sheet emitted
C2_Witness ==
  /\ Done
  /\ \E i \in DOMAIN issues :
        /\ issues[i].message.text = "Duplicate item identifier across item sheets"
        /\ issues[i].sheet # SHEETS.ITEM_PARENTS
        /\ \E k \in DOMAIN parentItems :
              <<parentItems[k].identifier>> = issues[i].message.args

(***************************************************************************)
(* Rows of the item sheets, in the order the run processes them: a row is  *)
(* <<k, i>>, data row i of sheet itemSheetNames[k].                        *)
(***************************************************************************)
ItemRefs ==
  UNION { { <<k, i>> : i \in DOMAIN workbook[itemSheetNames[k]].rows } :
            k \in DOMAIN itemSheetNames }

ItemSheetName(ref) == itemSheetNames[ref[1]]
ItemRowNumber(ref) == ref[2] + 1
ItemRow(ref) == workbook[ItemSheetName(ref)].rows[ref[2]]
ItemCell(ref, header) == Data(workbook[ItemSheetName(ref)], ItemRow(ref), header)
ItemIdentifier(ref) == normalizeIdentifier(ItemCell(ref, "identifier"))
ItemType(ref) == normalizeIdentifier(ItemCell(ref, "type_identifier"))
ItemParent(ref) == normalizeIdentifier(ItemCell(ref, "parent_identifier"))
ItemBefore(a, b) == a[1] < b[1] \/ (a[1] = b[1] /\ a[2] < b[2])

\* the row has the three required cells
ItemHasRequired(ref) ==
  /\ ItemIdentifier(ref) # <<>>
  /\ toText(ItemCell(ref, "name_en")) # <<>>
  /\ ItemType(ref) # <<>>

\* the row is the one that takes its identifier: the first row, in processing
\* order, that carries it together with a name and a type
ItemReserves(ref) ==
  /\ ItemHasRequired(ref)
  /\ ~\E o \in ItemRefs :
        ItemBefore(o, ref) /\ ItemHasRequired(o) /\ ItemIdentifier(o) = ItemIdentifier(ref)

ItemsWith(identifier) ==
  SelectSeq(result.payload.items, LAMBDA item : item.identifier = identifier)

\* the row was emitted: it took its identifier and an item carries it
ItemEmitted(ref) == ItemReserves(ref) /\ ItemsWith(ItemIdentifier(ref)) # <<>>

AttributeIdentifiers ==
  { result.payload.attributes[a].identifier : a \in DOMAIN result.payload.attributes }

\* the keys of the values_json object of a row (none if the cell holds no object)
ValuesJsonEntries(ref) ==
  LET Of(cell) == IF cell.kind = "object" THEN cell.entries ELSE <<>>
  IN Of(JsonData(workbook[ItemSheetName(ref)], ItemRow(ref), "values_json"))

\* C3: every key of the values of every emitted item is the identifier of an
\* emitted attribute; a values_json key that names no declared attribute
\* records an error and is not a key of the emitted values.  (Refuted: the
\* values start as a copy of the values_json object.)
C3_ValueKeysAreAttributes ==
  Done =>
    /\ \A n \in DOMAIN result.payload.items :
          DOMAIN result.payload.items[n].values \subseteq AttributeIdentifiers
    /\ \A ref \in ItemRefs :
          ItemEmitted(ref) =>
            \A e \in DOMAIN ValuesJsonEntries(ref) :
              normalizeIdentifier(StrV(ValuesJsonEntries(ref)[e].key))
                  \notin AttributeIdentifiers =>
                /\ \E x \in DOMAIN issues :
                      /\ issues[x].severity = "error"
                      /\ issues[x].sheet = ItemSheetName(ref)
                      /\ issues[x].row = ItemRowNumber(ref)
                      /\ issues[x].field = Field("values_json")
                /\ ValuesJsonEntries(ref)[e].key
                     \notin DOMAIN ItemsWith(ItemIdentifier(ref))[1].values

(***************************************************************************)
(* Rows of the Attributes sheet                                            *)
(***************************************************************************)
AttributeRowRefs == DOMAIN workbook[SHEETS.ATTRIBUTES].rows
AttributeCell(i, header) ==
  Data(workbook[SHEETS.ATTRIBUTES], workbook[SHEETS.ATTRIBUTES].rows[i], header)
AttributeRowIdentifier(i) == normalizeIdentifier(AttributeCell(i, "identifier"))
AttributeRowGroups(i) == parseCsvList(AttributeCell(i, "groups_csv"))

GroupIdentifiers ==
  { result.payload.attrGroups[g].identifier : g \in DOMAIN result.payload.attrGroups }

NamesUnknownGroup(i) ==
  \E g \in SeqToSet(AttributeRowGroups(i)) : g \notin GroupIdentifiers

\* no emitted attribute is the one the row describes
AttributeRowExcluded(i) ==
  ~\E a \in DOMAIN result.payload.attributes :
      /\ result.payload.attributes[a].identifier = AttributeRowIdentifier(i)
      /\ result.payload.attributes[a].groups = AttributeRowGroups(i)

\* the row passes the checks that come before the group checks
AttributeReachesGroupCheck(i) ==
  LET Type(typeRaw, parsedType) ==
        typeRaw # <<>> /\ parsedType.ok /\ parsedType.value.m \in ATTRIBUTE_TYPE_CODES
  IN /\ AttributeRowIdentifier(i) # <<>>
     /\ toText(AttributeCell(i, "name_en")) # <<>>
     /\ Type(toText(AttributeCell(i, "type_code")),
             parseInteger(StrV(toText(AttributeCell(i, "type_code")))))
     /\ ~\E j \in AttributeRowRefs :
           /\ j < i
           /\ AttributeRowIdentifier(j) = AttributeRowIdentifier(i)
           /\ ErrorsAt(SHEETS.ATTRIBUTES, j + 1) = <<>>

EmittedGroupsDeclared ==
  \A a \in DOMAIN result.payload.attributes :
    SeqToSet(result.payload.attributes[a].groups) \subseteq GroupIdentifiers

\* C4 as stated: an Attributes row that names a group that was not emitted
\* records exactly one error for the row, with field groups_csv, and is
\* excluded; every group of every emitted attribute is an emitted group.
C4_AsStated ==
  Done =>
    /\ \A i \in AttributeRowRefs :
          NamesUnknownGroup(i) =>
            /\ Len(ErrorsAt(SHEETS.ATTRIBUTES, i + 1)) = 1
            /\ ErrorsAt(SHEETS.ATTRIBUTES, i + 1)[1].field = Field("groups_csv")
            /\ AttributeRowExcluded(i)
    /\ EmittedGroupsDeclared

\* C4: an Attributes row that names a group that was not emitted records
\* exactly one error for the row and is excluded; the error has field
\* groups_csv when the row passes the checks made before the group check
\* (identifier, name and type_code present, identifier not taken by an earlier
\* accepted row, type_code one of 1..8); every group of every emitted attribute
\* is an emitted group.
C4_UnknownGroupExcluded ==
  Done =>
    /\ \A i \in AttributeRowRefs :
          NamesUnknownGroup(i) =>
            /\ Len(ErrorsAt(SHEETS.ATTRIBUTES, i + 1)) = 1
            /\ AttributeReachesGroupCheck(i) =>
                  ErrorsAt(SHEETS.ATTRIBUTES, i + 1)[1].field = Field("groups_csv")
            /\ AttributeRowExcluded(i)
    /\ EmittedGroupsDeclared

\* a row that is otherwise acceptable names a known and an unknown group, and
\* another attribute is emitted
C4_Witness ==
  /\ Done
  /\ result.payload.attributes # <<>>
  /\ \E i \in AttributeRowRefs :
        /\ NamesUnknownGroup(i)
        /\ \E g \in SeqToSet(AttributeRowGroups(i)) : g \in GroupIdentifiers
        /\ AttributeReachesGroupCheck(i)
        /\ Len(ErrorsAt(SHEETS.ATTRIBUTES, i + 1)) = 1
        /\ ErrorsAt(SHEETS.ATTRIBUTES, i + 1)[1].field = Field("groups_csv")

(***************************************************************************)
(* Duplicate item identifiers                                              *)
(***************************************************************************)
ItemErrorsAt(ref) == ErrorsAt(ItemSheetName(ref), ItemRowNumber(ref))

DuplicateItemErrorAt(ref) ==
  \E x \in DOMAIN ItemErrorsAt(ref) :
    /\ ItemErrorsAt(ref)[x].field = Field("identifier")
    /\ ItemErrorsAt(ref)[x].message.text = "Duplicate item identifier across item sheets"

\* the item is the one the row describes
ItemMatches(item, ref) ==
  /\ item.identifier = ItemIdentifier(ref)
  /\ item.typeIdentifier = ItemType(ref)
  /\ item.parentIdentifier = ItemParent(ref)
  /\ item.name.s = toText(ItemCell(ref, "name_en"))

\* rows a and b lie in different item sheets, a in the earlier one, and carry
\* the same identifier
SameIdentifierAcrossSheets(a, b) ==
  /\ a[1] < b[1]
  /\ ItemIdentifier(a) # <<>>
  /\ ItemIdentifier(a) = ItemIdentifier(b)

\* C5 as stated: of two rows of different item sheets that carry the same
\* identifier, the second records a duplicate-identifier error and is not
\* emitted and the first (the first row to carry the identifier) remains in
\* payload.items.
C5_AsStated ==
  Done =>
    \A a, b \in ItemRefs :
      /\ SameIdentifierAcrossSheets(a, b)
      /\ ~\E o \in ItemRefs : ItemBefore(o, a) /\ ItemIdentifier(o) = ItemIdentifier(a)
      => /\ DuplicateItemErrorAt(b)
         /\ Len(ItemsWith(ItemIdentifier(a))) = 1
         /\ ItemMatches(ItemsWith(ItemIdentifier(a))[1], a)

\* C5: of two rows of different item sheets that carry the same identifier,
\* both with a name and a type identifier, the second records exactly one
\* error, the duplicate-identifier error, and at most one item carries the
\* identifier; if the first records no error, that item is the first row's.
C5_SecondOccurrenceDropped ==
  Done =>
    \A a, b \in ItemRefs :
      SameIdentifierAcrossSheets(a, b) /\ ItemHasRequired(a) /\ ItemHasRequired(b)
      => /\ DuplicateItemErrorAt(b)
         /\ Len(ItemErrorsAt(b)) = 1
         /\ Len(ItemsWith(ItemIdentifier(a))) <= 1
         /\ ItemErrorsAt(a) = <<>> =>
               /\ Len(ItemsWith(ItemIdentifier(a))) = 1
               /\ ItemMatches(ItemsWith(ItemIdentifier(a))[1], a)

\* a parent item and a row of a product sheet that repeats its identifier in
\* another spelling and with another type
C5_Witness ==
  /\ Done
  /\ \E a, b \in ItemRefs :
        /\ SameIdentifierAcrossSheets(a, b)
        /\ ItemHasRequired(a) /\ ItemHasRequired(b)
        /\ ItemErrorsAt(a) = <<>>
        /\ toText(ItemCell(a, "identifier")) # toText(ItemCell(b, "identifier"))
        /\ ItemType(a) # ItemType(b)
        /\ DuplicateItemErrorAt(b)
        /\ Len(ItemsWith(ItemIdentifier(a))) = 1

(***************************************************************************)
(* Rows of the Attribute_Groups sheet                                      *)
(***************************************************************************)
GroupRowRefs == DOMAIN workbook[SHEETS.GROUPS].rows
GroupRowIdentifier(i) ==
  normalizeIdentifier(Data(workbook[SHEETS.GROUPS], workbook[SHEETS.GROUPS].rows[i],
                           "identifier"))
GroupErrorsAt(i) == ErrorsAt(SHEETS.GROUPS, i + 1)

\* the requests that row i describes when read on its own (none if it is
\* rejected)
GroupRequestsOf(i) ==
  groupRow([payload |-> <<>>, byIdentifier |-> <<>>, issues |-> <<>>], i + 1,
           workbook[SHEETS.GROUPS], workbook[SHEETS.GROUPS].rows[i], config).payload

GroupsWith(identifier) ==
  SelectSeq(result.payload.attrGroups, LAMBDA group : group.identifier = identifier)

SameGroupIdentifier(i, j) ==
  i < j /\ GroupRowIdentifier(i) # <<>> /\ GroupRowIdentifier(i) = GroupRowIdentifier(j)

\* C6 as stated: of two Attribute_Groups rows with the same identifier, the
\* first being the first row to carry it, exactly one error is recorded, for the
\* row of the second, and of the two only the first is in payload.attrGroups.
C6_AsStated ==
  Done =>
    \A i, j \in GroupRowRefs :
      /\ SameGroupIdentifier(i, j)
      /\ ~\E h \in GroupRowRefs : h < i /\ GroupRowIdentifier(h) = GroupRowIdentifier(i)
      => /\ GroupErrorsAt(i) = <<>>
         /\ Len(GroupErrorsAt(j)) = 1
         /\ GroupsWith(GroupRowIdentifier(i)) = GroupRequestsOf(i)
         /\ Len(GroupRequestsOf(i)) = 1

\* C6: of two Attribute_Groups rows with the same identifier, the earlier
\* recording no error, exactly one error is recorded for the two, it carries
\* the row number of the later one, and of the two only the earlier is in
\* payload.attrGroups.
C6_DuplicateGroupDropped ==
  Done =>
    \A i, j \in GroupRowRefs :
      SameGroupIdentifier(i, j) /\ GroupErrorsAt(i) = <<>>
      => /\ Len(GroupErrorsAt(j)) = 1
         /\ GroupsWith(GroupRowIdentifier(i)) = GroupRequestsOf(i)
         /\ Len(GroupRequestsOf(i)) = 1

\* two rows whose identifiers differ as written, the later one rejected as a
\* duplicate and describing another group than the earlier
C6_Witness ==
  /\ Done
  /\ \E i, j \in GroupRowRefs :
        /\ SameGroupIdentifier(i, j)
        /\ GroupErrorsAt(i) = <<>>
        /\ workbook[SHEETS.GROUPS].rows[i].identifier
             # workbook[SHEETS.GROUPS].rows[j].identifier
        /\ Len(GroupErrorsAt(j)) = 1
        /\ GroupErrorsAt(j)[1].message.text = "Duplicate group identifier"
        /\ GroupRequestsOf(j) # GroupRequestsOf(i)
        /\ GroupsWith(GroupRowIdentifier(i)) = GroupRequestsOf(i)

(***************************************************************************)
(* Items of a type that has a parent type                                  *)
(***************************************************************************)
\* the type identifier resolves to an emitted type with a parent identifier
TypeHasParent(typeIdentifier) ==
  \E t \in DOMAIN result.payload.types :
    /\ result.payload.types[t].identifier = typeIdentifier
    /\ result.payload.types[t].parentIdentifier # <<>>

NeedsParent(ref) == TypeHasParent(ItemType(ref)) /\ ItemParent(ref) = <<>>

ItemRowNotEmitted(ref) ==
  ~\E n \in DOMAIN result.payload.items : ItemMatches(result.payload.items[n], ref)

\* C7 as stated: an item row whose type has a parent type and whose own
\* parent_identifier is empty records exactly one error for the row, with
\* field parent_identifier, and is not emitted.
C7_AsStated ==
  Done =>
    \A ref \in ItemRefs :
      NeedsParent(ref) =>
        /\ Len(ItemErrorsAt(ref)) = 1
        /\ ItemErrorsAt(ref)[1].field = Field("parent_identifier")
        /\ ItemRowNotEmitted(ref)

\* C7: an item row whose type has a parent type and whose own
\* parent_identifier is empty records exactly one error for the row and is
\* not emitted; when the row has an identifier and a name and no earlier row
\* took its identifier, the error has field parent_identifier and no item
\* carries the identifier.
C7_ParentRequired ==
  Done =>
    \A ref \in ItemRefs :
      NeedsParent(ref) =>
        /\ Len(ItemErrorsAt(ref)) = 1
        /\ ItemRowNotEmitted(ref)
        /\ ItemReserves(ref) =>
              /\ ItemErrorsAt(ref)[1].field = Field("parent_identifier")
              /\ ItemsWith(ItemIdentifier(ref)) = <<>>

\* a row of a child type without a parent, rejected for it, next to an item
\* that is emitted
C7_Witness ==
  /\ Done
  /\ result.payload.items # <<>>
  /\ \E ref \in ItemRefs :
        /\ NeedsParent(ref)
        /\ ItemReserves(ref)
        /\ Len(ItemErrorsAt(ref)) = 1
        /\ ItemErrorsAt(ref)[1].field = Field("parent_identifier")

(***************************************************************************)
(* Valid and visible types of an attribute                                 *)
(***************************************************************************)
BindingRowRefs == DOMAIN workbook[SHEETS.TYPE_GROUP_BINDINGS].rows
BindingCell(r, header) ==
  Data(workbook[SHEETS.TYPE_GROUP_BINDINGS],
       workbook[SHEETS.TYPE_GROUP_BINDINGS].rows[r], header)
BindingGroup(r) == normalizeIdentifier(BindingCell(r, "group_identifier"))
BindingType(r) == normalizeIdentifier(BindingCell(r, "type_identifier"))

\* the row is an accepted binding: it names a group and a type and records no
\* error
BindingAccepted(r) ==
  /\ BindingGroup(r) # <<>>
  /\ BindingType(r) # <<>>
  /\ ErrorsAt(SHEETS.TYPE_GROUP_BINDINGS, r + 1) = <<>>

\* the flag of an accepted binding; a blank cell is true
BindingFlag(r, header) ==
  IF isBlank(BindingCell(r, header)) THEN TRUE
  ELSE parseBoolean(BindingCell(r, header)).value.b

\* the types that the accepted bindings of the groups allow under the flag
BoundTypes(groups, header) ==
  { BindingType(r) :
      r \in { q \in BindingRowRefs :
                /\ BindingAccepted(q)
                /\ BindingGroup(q) \in SeqToSet(groups)
                /\ BindingFlag(q, header) } }

\* the emitted attribute comes from row i: the row carries its identifier and
\* records no error
AttributeFromRow(attribute, i) ==
  /\ AttributeRowIdentifier(i) = attribute.identifier
  /\ ErrorsAt(SHEETS.ATTRIBUTES, i + 1) = <<>>

\* C8: the valid types of every emitted attribute are the identifiers of its
\* valid_types_csv together with the types of the accepted bindings with
\* valid = true of the groups it lists, and its visible types the same over
\* visible_types_csv and the bindings with visible = true.
C8_TypeSetsAreUnions ==
  Done =>
    \A a \in DOMAIN result.payload.attributes : \A i \in AttributeRowRefs :
      AttributeFromRow(result.payload.attributes[a], i) =>
        /\ SeqToSet(result.payload.attributes[a].valid)
             = SeqToSet(parseCsvList(AttributeCell(i, "valid_types_csv")))
                 \cup BoundTypes(result.payload.attributes[a].groups, "valid")
        /\ SeqToSet(result.payload.attributes[a].visible)
             = SeqToSet(parseCsvList(AttributeCell(i, "visible_types_csv")))
                 \cup BoundTypes(result.payload.attributes[a].groups, "visible")

\* an attribute with a valid type that comes from a binding alone, next to a
\* binding of one of its groups with valid = false and a binding of a group it
\* does not list, neither of which adds its type
C8_Witness ==
  /\ Done
  /\ \E a \in DOMAIN result.payload.attributes : \E r, q \in BindingRowRefs :
        /\ \E i \in AttributeRowRefs : AttributeFromRow(result.payload.attributes[a], i)
        /\ BindingAccepted(r) /\ BindingAccepted(q)
        /\ BindingGroup(r) \in SeqToSet(result.payload.attributes[a].groups)
        /\ BindingFlag(r, "valid")
        /\ BindingType(r) \in SeqToSet(result.payload.attributes[a].valid)
        /\ BindingType(q) \notin SeqToSet(result.payload.attributes[a].valid)
        /\ \/ /\ BindingGroup(q) \in SeqToSet(result.payload.attributes[a].groups)
              /\ ~BindingFlag(q, "valid")
           \/ BindingGroup(q) \notin SeqToSet(result.payload.attributes[a].groups)

(***************************************************************************)
(* Attribute values of an item                                             *)
(***************************************************************************)
\* the values of the item emitted from the row
ValuesOf(ref) == ItemsWith(ItemIdentifier(ref))[1].values

\* the candidate values a row gives for the attribute, in the order the code
\* reads them: the values_json entries, then the attr: columns
JsonCandidates(ref, attributeIdentifier) ==
  SelectSeq(ValuesJsonEntries(ref),
            LAMBDA e : normalizeIdentifier(StrV(e.key)) = attributeIdentifier)

ColumnCandidates(ref, attributeIdentifier) ==
  SelectSeq([c \in DOMAIN workbook[ItemSheetName(ref)].attrHeaders |->
               [key |-> workbook[ItemSheetName(ref)].attrHeaders[c],
                value |-> StrV(ItemRow(ref).attr[c])]],
            LAMBDA e : normalizeIdentifier(StrV(e.key)) = attributeIdentifier)

Candidates(ref, attributeIdentifier) ==
  JsonCandidates(ref, attributeIdentifier) \o ColumnCandidates(ref, attributeIdentifier)

BlankValue(raw) == raw.t \in {"null", "undefined"} \/ trim(StringOf(raw)) = <<>>

\* the coercer that matches the type code
Coercer(typeCode, raw) ==
  CASE typeCode = 2 -> parseBoolean(raw)
    [] typeCode = 3 -> parseInteger(raw)
    [] typeCode = 4 -> parseFloatNumber(raw)
    [] OTHER -> Ok(StrV(trim(StringOf(raw))))

AcceptedCandidates(ref, attribute) ==
  SelectSeq(Candidates(ref, attribute.identifier),
            LAMBDA e : ~BlankValue(e.value) /\ Coercer(attribute.type, e.value).ok)

RejectedCandidate(attribute, e) ==
  /\ ~attribute.languageDependent
  /\ attribute.type \in {2, 3, 4}
  /\ ~BlankValue(e.value)
  /\ ~Coercer(attribute.type, e.value).ok

\* C9: for an attribute that is not language dependent, the accepted
\* non-blank candidate value of an emitted item (the last one, if the row gives
\* several) is stored under the attribute identifier as the output of the
\* boolean, integer or float coercer for type codes 2, 3 and 4, and as the
\* trimmed text of the raw value for every other type code.
C9_TypedValueStored ==
  Done =>
    \A ref \in ItemRefs : \A a \in DOMAIN result.payload.attributes :
      LET Stored(attribute, accepted) ==
            accepted # <<>> =>
              /\ attribute.identifier \in DOMAIN ValuesOf(ref)
              /\ ValuesOf(ref)[attribute.identifier]
                   = Coercer(attribute.type, accepted[Len(accepted)].value).value
      IN ItemEmitted(ref) /\ ~result.payload.attributes[a].languageDependent =>
           Stored(result.payload.attributes[a],
                  AcceptedCandidates(ref, result.payload.attributes[a]))

\* the text 12.7, given in values_json under a key spelled otherwise than the
\* identifier, is stored for a FLOAT attribute as the number 12.7
C9_Witness ==
  /\ Done
  /\ \E ref \in ItemRefs : \E a \in DOMAIN result.payload.attributes :
        /\ ItemEmitted(ref)
        /\ result.payload.attributes[a].type = 4
        /\ ~result.payload.attributes[a].languageDependent
        /\ \E e \in DOMAIN ValuesJsonEntries(ref) :
              /\ ValuesJsonEntries(ref)[e].value = StrV(<<"1","2",".","7">>)
              /\ normalizeIdentifier(StrV(ValuesJsonEntries(ref)[e].key))
                   = result.payload.attributes[a].identifier
        /\ ColumnCandidates(ref, result.payload.attributes[a].identifier) = <<>>
        /\ ValuesOf(ref)[result.payload.attributes[a].identifier] = NumV(127, 1)
        /\ ValuesOf(ref)[result.payload.attributes[a].identifier].t = "number"

\* C10: when a candidate value of a BOOLEAN, INTEGER or FLOAT attribute fails
\* its coercer, an error is recorded for the row and the rejected raw value is
\* not emitted in the values of the item, whether it came from values_json or
\* from an attr: column.  (Refuted for values_json: the values start as a copy
\* of the values_json object.)
C10_RejectedValueOmitted ==
  Done =>
    \A ref \in ItemRefs : \A a \in DOMAIN result.payload.attributes :
      ItemEmitted(ref) =>
        /\ \A e \in DOMAIN JsonCandidates(ref, result.payload.attributes[a].identifier) :
              LET Omitted(entry) ==
                    /\ \E x \in DOMAIN ItemErrorsAt(ref) :
                          ItemErrorsAt(ref)[x].field = KeyField("values_json.", entry.key)
                    /\ \/ entry.key \notin DOMAIN ValuesOf(ref)
                       \/ ValuesOf(ref)[entry.key] # entry.value
              IN RejectedCandidate(result.payload.attributes[a],
                                   JsonCandidates(ref, result.payload.attributes[a].identifier)[e])
                 => Omitted(JsonCandidates(ref, result.payload.attributes[a].identifier)[e])
        /\ \A c \in DOMAIN ColumnCandidates(ref, result.payload.attributes[a].identifier) :
              LET Omitted(entry) ==
                    /\ \E x \in DOMAIN ItemErrorsAt(ref) :
                          ItemErrorsAt(ref)[x].field = KeyField("attr:", entry.key)
                    /\ \/ result.payload.attributes[a].identifier \notin DOMAIN ValuesOf(ref)
                       \/ ValuesOf(ref)[result.payload.attributes[a].identifier]
                            # entry.value
              IN RejectedCandidate(result.payload.attributes[a],
                                   ColumnCandidates(ref, result.payload.attributes[a].identifier)[c])
                 => Omitted(ColumnCandidates(ref, result.payload.attributes[a].identifier)[c])

(***************************************************************************)
(* Blank values and the order of the two value sources                     *)
(***************************************************************************)
\* every candidate the attr: columns of the row give for the attribute is blank
ColumnsBlank(ref, attributeIdentifier) ==
  \A c \in DOMAIN ColumnCandidates(ref, attributeIdentifier) :
    isBlank(ColumnCandidates(ref, attributeIdentifier)[c].value)

\* an issue of the row is recorded for the attr: column of that header
ColumnIssue(ref, header) ==
  \E x \in DOMAIN IssuesAt(ItemSheetName(ref), ItemRowNumber(ref)) :
    IssuesAt(ItemSheetName(ref), ItemRowNumber(ref))[x].field = KeyField("attr:", header)

\* C11: an emitted item row whose cell under the attr: column of a declared
\* attribute is blank, and whose values_json names that attribute under no
\* key, has no key for the attribute in its values (neither an empty text nor
\* a null), and no issue is recorded for that column of the row.
C11_BlankCellOmitted ==
  Done =>
    \A ref \in ItemRefs : \A a \in DOMAIN result.payload.attributes :
      LET Omitted(identifier, columns) ==
            /\ identifier \notin DOMAIN ValuesOf(ref)
            /\ \A c \in DOMAIN columns : ~ColumnIssue(ref, columns[c].key)
      IN /\ ItemReserves(ref)
         /\ ColumnCandidates(ref, result.payload.attributes[a].identifier) # <<>>
         /\ ColumnsBlank(ref, result.payload.attributes[a].identifier)
         /\ JsonCandidates(ref, result.payload.attributes[a].identifier) = <<>>
         => /\ ItemEmitted(ref)
            /\ Omitted(result.payload.attributes[a].identifier,
                       ColumnCandidates(ref, result.payload.attributes[a].identifier))

\* an item emitted with values for other attributes and none for the declared
\* attribute whose attr: cell is blank
C11_Witness ==
  /\ Done
  /\ \E ref \in ItemRefs : \E a \in DOMAIN result.payload.attributes :
        /\ ItemEmitted(ref)
        /\ ColumnCandidates(ref, result.payload.attributes[a].identifier) # <<>>
        /\ ColumnsBlank(ref, result.payload.attributes[a].identifier)
        /\ JsonCandidates(ref, result.payload.attributes[a].identifier) = <<>>
        /\ DOMAIN ValuesOf(ref) # {}
        /\ result.payload.attributes[a].identifier \notin DOMAIN ValuesOf(ref)

\* an issue of the row is recorded for the values_json entry of that key
EntryIssue(ref, key) ==
  \E x \in DOMAIN IssuesAt(ItemSheetName(ref), ItemRowNumber(ref)) :
    IssuesAt(ItemSheetName(ref), ItemRowNumber(ref))[x].field
      = KeyField("values_json.", key)

\* C12: a values_json entry of an emitted item whose key names a declared
\* attribute and whose raw value is blank (null, or empty or whitespace text)
\* records no issue, and, unless an attr: column gives the attribute a
\* non-blank value, the values of the item have no key for the attribute.
\* (Refuted: the values start as a copy of the values_json object, so the
\* blank raw value stays under the key as written.)
C12_BlankValueOmitted ==
  Done =>
    \A ref \in ItemRefs : \A a \in DOMAIN result.payload.attributes :
      ItemEmitted(ref) =>
        \A e \in DOMAIN JsonCandidates(ref, result.payload.attributes[a].identifier) :
          LET Omitted(identifier, entry) ==
                /\ ~EntryIssue(ref, entry.key)
                /\ ColumnsBlank(ref, identifier) =>
                      identifier \notin DOMAIN ValuesOf(ref)
          IN BlankValue(JsonCandidates(ref, result.payload.attributes[a].identifier)[e].value)
             => Omitted(result.payload.attributes[a].identifier,
                        JsonCandidates(ref, result.payload.attributes[a].identifier)[e])

\* the value coerceAttributeValue returns for an accepted raw value
CoercedValue(attribute, raw) ==
  IF attribute.languageDependent
    THEN IF raw.t \in {"object", "localized"} THEN raw
         ELSE LocalizedV(config.defaultLanguage, trim(StringOf(raw)))
    ELSE Coercer(attribute.type, raw).value

\* the non-blank attr: cells of the row for the attribute that are accepted
AcceptedColumns(ref, attribute) ==
  SelectSeq(ColumnCandidates(ref, attribute.identifier),
            LAMBDA e : /\ ~BlankValue(e.value)
                       /\ attribute.languageDependent \/ Coercer(attribute.type, e.value).ok)

\* C13: when an emitted item row gives a value for one attribute in values_json
\* and also in a non-blank attr: column, and the column value is accepted, the
\* value stored under the attribute identifier is the coerced column value,
\* whatever values_json gave.
C13_ColumnOverridesJson ==
  Done =>
    \A ref \in ItemRefs : \A a \in DOMAIN result.payload.attributes :
      LET Overrides(attribute, accepted) ==
            /\ attribute.identifier \in DOMAIN ValuesOf(ref)
            /\ ValuesOf(ref)[attribute.identifier]
                 = CoercedValue(attribute, accepted[Len(accepted)].value)
      IN /\ ItemEmitted(ref)
         /\ JsonCandidates(ref, result.payload.attributes[a].identifier) # <<>>
         /\ AcceptedColumns(ref, result.payload.attributes[a]) # <<>>
         => Overrides(result.payload.attributes[a],
                      AcceptedColumns(ref, result.payload.attributes[a]))

\* values_json gives the FLOAT attribute the accepted text 12.7 under its own
\* identifier, the attr: column gives 3.50, and the item carries the number 3.5
C13_Witness ==
  /\ Done
  /\ \E ref \in ItemRefs : \E a \in DOMAIN result.payload.attributes :
        /\ ItemEmitted(ref)
        /\ result.payload.attributes[a].type = 4
        /\ \E e \in DOMAIN JsonCandidates(ref, result.payload.attributes[a].identifier) :
              /\ JsonCandidates(ref, result.payload.attributes[a].identifier)[e].key
                   = result.payload.attributes[a].identifier
              /\ JsonCandidates(ref, result.payload.attributes[a].identifier)[e].value
                   = StrV(Text127)
        /\ AcceptedColumns(ref, result.payload.attributes[a]) # <<>>
        /\ ValuesOf(ref)[result.payload.attributes[a].identifier] = NumV(35, 1)

(***************************************************************************)
(* Absent sheets                                                           *)
(***************************************************************************)
\* the issues recorded for one sheet, in the order recorded
IssuesOfSheet(sheetName) ==
  SelectSeq(issues, LAMBDA issue : issue.sheet = sheetName)

ErrorsOfSheet(sheetName) ==
  SelectSeq(IssuesOfSheet(sheetName), LAMBDA issue : issue.severity = "error")

\* a warning of the row is recorded for that field
WarningAt(sheetName, rowNumber, field) ==
  \E x \in DOMAIN IssuesAt(sheetName, rowNumber) :
    /\ IssuesAt(sheetName, rowNumber)[x].severity = "warning"
    /\ IssuesAt(sheetName, rowNumber)[x].field = Field(field)

\* C14: a workbook without an Import_Config sheet records no error issue for
\* that sheet and is processed with mode CREATE_UPDATE, error policy
\* PROCESS_WARN and default language en, while every other absent sheet
\* records an error.  (Refuted: Import_Config is one of the required sheets
\* and its absence records an error.)
C14_ConfigOptional ==
  Done /\ ~workbook[SHEETS.CONFIG].exists =>
    /\ ErrorsOfSheet(SHEETS.CONFIG) = <<>>
    /\ config = [mode |-> DefaultMode, errors |-> DefaultErrors,
                 defaultLanguage |-> DefaultLanguage]
    /\ result.payload.config = [mode |-> DefaultMode, errors |-> DefaultErrors]
    /\ \A name \in SeqToSet(allSheetNames) \ {SHEETS.CONFIG} :
          ~workbook[name].exists => ErrorsOfSheet(name) # <<>>

\* C15: a workbook without a Types sheet records exactly one issue for the
\* sheet Types, an error with field sheet and no row, and returns no type;
\* the later stages still run: every binding row that names a group and a
\* type records its unknown-type warning, every type listed by an emitted
\* attribute records its warning on the Attributes sheet, and every item row
\* that takes its identifier records the unknown-type warning and is emitted.
C15_MissingTypesSheet ==
  Done /\ ~workbook[SHEETS.TYPES].exists =>
    /\ Len(IssuesOfSheet(SHEETS.TYPES)) = 1
    /\ IssuesOfSheet(SHEETS.TYPES)[1].severity = "error"
    /\ IssuesOfSheet(SHEETS.TYPES)[1].field = Field("sheet")
    /\ IssuesOfSheet(SHEETS.TYPES)[1].row = 0
    /\ result.payload.types = <<>>
    /\ \A r \in BindingRowRefs :
          BindingGroup(r) # <<>> /\ BindingType(r) # <<>> =>
            WarningAt(SHEETS.TYPE_GROUP_BINDINGS, r + 1, "type_identifier")
    /\ \A a \in DOMAIN result.payload.attributes :
          \A t \in SeqToSet(result.payload.attributes[a].valid)
                     \cup SeqToSet(result.payload.attributes[a].visible) :
            \E x \in DOMAIN IssuesOfSheet(SHEETS.ATTRIBUTES) :
              /\ IssuesOfSheet(SHEETS.ATTRIBUTES)[x].severity = "warning"
              /\ IssuesOfSheet(SHEETS.ATTRIBUTES)[x].message.args = <<t>>
    /\ \A ref \in ItemRefs :
          ItemReserves(ref) =>
            /\ WarningAt(ItemSheetName(ref), ItemRowNumber(ref), "type_identifier")
            /\ ItemEmitted(ref)

\* a run without the Types sheet in which the binding, attribute and item
\* stages each recorded a warning and attributes and items were returned
C15_Witness ==
  /\ Done
  /\ ~workbook[SHEETS.TYPES].exists
  /\ Len(ErrorsOfSheet(SHEETS.TYPES)) = 1
  /\ result.payload.types = <<>>
  /\ \E r \in BindingRowRefs :
        WarningAt(SHEETS.TYPE_GROUP_BINDINGS, r + 1, "type_identifier")
  /\ \E x \in DOMAIN IssuesOfSheet(SHEETS.ATTRIBUTES) :
        IssuesOfSheet(SHEETS.ATTRIBUTES)[x].severity = "warning"
  /\ result.payload.attributes # <<>>
  /\ \E ref \in ItemRefs :
        /\ ItemSheetName(ref) = PRODUCT_SHEETS[1]
        /\ WarningAt(ItemSheetName(ref), ItemRowNumber(ref), "type_identifier")
        /\ ItemEmitted(ref)

(***************************************************************************)
(* Rows that record an error                                               *)
(***************************************************************************)
\* C16: a row of an entity sheet that records an error issue records exactly
\* one and contributes no object to the payload: an Attribute_Groups row no
\* group, an Attributes row no attribute, an item row no item, whether the
\* error is a missing required cell, a duplicate identifier or a value that
\* fails coercion.  (Refuted: an item row whose values fail coercion records
\* an error for each and is emitted all the same.)
C16_ErrorRowsNotEmitted ==
  Done =>
    /\ \A i \in GroupRowRefs :
          GroupErrorsAt(i) # <<>> =>
            /\ Len(GroupErrorsAt(i)) = 1
            /\ \/ GroupRequestsOf(i) = <<>>
               \/ GroupRequestsOf(i)[1] \notin SeqToSet(result.payload.attrGroups)
    /\ \A i \in AttributeRowRefs :
          ErrorsAt(SHEETS.ATTRIBUTES, i + 1) # <<>> =>
            /\ Len(ErrorsAt(SHEETS.ATTRIBUTES, i + 1)) = 1
            /\ AttributeRowExcluded(i)
    /\ \A ref \in ItemRefs :
          ItemErrorsAt(ref) # <<>> =>
            /\ Len(ItemErrorsAt(ref)) = 1
            /\ ItemRowNotEmitted(ref)

(***************************************************************************)
(* References that the workbook cannot resolve                             *)
(***************************************************************************)
TypeRowRefs == DOMAIN workbook[SHEETS.TYPES].rows
TypeCell(i, header) ==
  Data(workbook[SHEETS.TYPES], workbook[SHEETS.TYPES].rows[i], header)
TypeRowIdentifier(i) == normalizeIdentifier(TypeCell(i, "identifier"))
TypeRowParent(i) == normalizeIdentifier(TypeCell(i, "parent_identifier"))

TypeIdentifiers ==
  { result.payload.types[t].identifier : t \in DOMAIN result.payload.types }

TypesWith(identifier) ==
  SelectSeq(result.payload.types, LAMBDA type : type.identifier = identifier)

\* the type emitted from row i: the row records no error and a type carries
\* its identifier and its parent
TypeFromRow(i) ==
  /\ TypeRowIdentifier(i) # <<>>
  /\ ErrorsAt(SHEETS.TYPES, i + 1) = <<>>
  /\ TypesWith(TypeRowIdentifier(i)) # <<>>
  /\ TypesWith(TypeRowIdentifier(i))[1].parentIdentifier = TypeRowParent(i)

\* an issue of that severity with no row, for that field and argument
SheetIssue(severity, sheetName, field, arg) ==
  \E x \in DOMAIN IssuesAt(sheetName, 0) :
    /\ IssuesAt(sheetName, 0)[x].severity = severity
    /\ IssuesAt(sheetName, 0)[x].field = Field(field)
    /\ IssuesAt(sheetName, 0)[x].message.args = <<arg>>

\* an error of the row is recorded for that field
ErrorAt(sheetName, rowNumber, field) ==
  \E x \in DOMAIN ErrorsAt(sheetName, rowNumber) :
    ErrorsAt(sheetName, rowNumber)[x].field = Field(field)

\* the identifiers of the rows of every item sheet
DeclaredItems == { ItemIdentifier(o) : o \in ItemRefs } \ {<<>>}

\* the types an Attributes row lists that the Types sheet did not give
UnknownTypesOf(i) ==
  (SeqToSet(parseCsvList(AttributeCell(i, "valid_types_csv")))
     \cup SeqToSet(parseCsvList(AttributeCell(i, "visible_types_csv"))))
  \ TypeIdentifiers

C18_SelfParentTypeRejected ==
  Done =>
    /\ \A i \in TypeRowRefs :
          /\ TypeRowIdentifier(i) # <<>>
          /\ TypeRowParent(i) = TypeRowIdentifier(i)
          => \/ ErrorsAt(SHEETS.TYPES, i + 1) # <<>>
             \/ SheetIssue("error", SHEETS.TYPES, "parent_identifier",
                           TypeRowIdentifier(i))
    /\ \A t \in DOMAIN result.payload.types :
          result.payload.types[t].parentIdentifier # result.payload.types[t].identifier

\* the row names itself as its parent
SelfParent(ref) ==
  ItemIdentifier(ref) # <<>> /\ ItemParent(ref) = ItemIdentifier(ref)

SelfParentErrorAt(ref) ==
  \E x \in DOMAIN ItemErrorsAt(ref) :
    /\ ItemErrorsAt(ref)[x].field = Field("parent_identifier")
    /\ ItemErrorsAt(ref)[x].message.text
         = "parent_identifier cannot reference the same item identifier"

NoItemIsOwnParent ==
  \A n \in DOMAIN result.payload.items :
    result.payload.items[n].parentIdentifier # result.payload.items[n].identifier

\* C19 as stated: every item row whose parent_identifier equals its own
\* identifier records the self-parent error, with field parent_identifier,
\* and is not emitted; no item of the payload is its own parent.
C19_AsStated ==
  Done =>
    /\ \A ref \in ItemRefs :
          SelfParent(ref) => SelfParentErrorAt(ref) /\ ItemRowNotEmitted(ref)
    /\ NoItemIsOwnParent

\* C19: an item row whose parent_identifier equals its own identifier is not
\* emitted and records exactly one error; when the row has a name and a type
\* and its identifier was not taken by an earlier row, that error is the
\* self-parent error with field parent_identifier and no item carries the
\* identifier; no item of the payload is its own parent.
C19_SelfParentRejected ==
  Done =>
    /\ \A ref \in ItemRefs :
          SelfParent(ref) =>
            /\ Len(ItemErrorsAt(ref)) = 1
            /\ ItemRowNotEmitted(ref)
            /\ ItemReserves(ref) =>
                  /\ SelfParentErrorAt(ref)
                  /\ ItemsWith(ItemIdentifier(ref)) = <<>>
    /\ NoItemIsOwnParent

\* a row that takes its identifier and names itself as parent is rejected
\* while another row of the workbook is emitted
C19_Witness ==
  /\ Done
  /\ result.payload.items # <<>>
  /\ \E ref \in ItemRefs :
        /\ SelfParent(ref)
        /\ ItemReserves(ref)
        /\ SelfParentErrorAt(ref)
        /\ ItemsWith(ItemIdentifier(ref)) = <<>>

(***************************************************************************)
(* Parent items the workbook does not declare                              *)
(***************************************************************************)
\* the row names a parent other than itself
HasOtherParent(ref) ==
  ItemParent(ref) # <<>> /\ ItemParent(ref) # ItemIdentifier(ref)

ParentWarningAt(ref) ==
  \E x \in DOMAIN IssuesAt(ItemSheetName(ref), ItemRowNumber(ref)) :
    /\ IssuesAt(ItemSheetName(ref), ItemRowNumber(ref))[x].severity = "warning"
    /\ IssuesAt(ItemSheetName(ref), ItemRowNumber(ref))[x].field
         = Field("parent_identifier")
    /\ IssuesAt(ItemSheetName(ref), ItemRowNumber(ref))[x].message.text
         = "Parent item is not declared in workbook"

\* the values_json and channels_json cells of the row are blank or objects
JsonCellsParse(ref) ==
  /\ parseJsonObject(JsonData(workbook[ItemSheetName(ref)], ItemRow(ref),
                              "values_json"), TRUE).ok
  /\ parseJsonObject(JsonData(workbook[ItemSheetName(ref)], ItemRow(ref),
                              "channels_json"), TRUE).ok

ItemRowEmitted(ref) ==
  \E n \in DOMAIN result.payload.items : ItemMatches(result.payload.items[n], ref)

\* C20 as stated: every item row that has its required cells and names a
\* parent other than itself records the parent-not-declared warning exactly
\* when no row of any item sheet carries that identifier, and is emitted in
\* either case.
C20_AsStated ==
  Done =>
    \A ref \in ItemRefs :
      ItemHasRequired(ref) /\ HasOtherParent(ref) =>
        /\ ParentWarningAt(ref) <=> ItemParent(ref) \notin DeclaredItems
        /\ ItemRowEmitted(ref)

\* C20: an item row that has a name and a type, whose identifier was not taken
\* by an earlier row and that names a parent other than itself, records the
\* parent-not-declared warning exactly when no row of any item sheet,
\* earlier or later, carries that identifier; it records no error for
\* parent_identifier and is emitted whenever its values_json and
\* channels_json cells parse.  A row whose identifier was taken records no
\* such warning.
C20_ParentWarning ==
  Done =>
    \A ref \in ItemRefs :
      HasOtherParent(ref) =>
        /\ ItemReserves(ref) =>
              /\ ParentWarningAt(ref) <=> ItemParent(ref) \notin DeclaredItems
              /\ ~ErrorAt(ItemSheetName(ref), ItemRowNumber(ref), "parent_identifier")
              /\ JsonCellsParse(ref) =>
                    /\ ItemEmitted(ref)
                    /\ ItemMatches(ItemsWith(ItemIdentifier(ref))[1], ref)
        /\ ~ItemReserves(ref) => ~ParentWarningAt(ref)

\* an emitted item whose parent is declared only by a later row records no
\* warning
C20_Witness ==
  /\ Done
  /\ \E ref \in ItemRefs :
        /\ ItemEmitted(ref)
        /\ HasOtherParent(ref)
        /\ ~ParentWarningAt(ref)
        /\ \E o \in ItemRefs : ItemBefore(ref, o) /\ ItemIdentifier(o) = ItemParent(ref)
        /\ ~\E o \in ItemRefs : ItemBefore(o, ref) /\ ItemIdentifier(o) = ItemParent(ref)

(***************************************************************************)
(* The returned lists and counts                                           *)
(***************************************************************************)
\* C21: the returned errors are the recorded issues of severity error and the
\* returned warnings those of severity warning, each issue once, unchanged
\* and in the order recorded, so that the two lists together hold every
\* recorded issue; the summary counts are the lengths of the four payload
\* lists and of the two issue lists.
C21_AllIssuesReturned ==
  Done =>
    /\ result.errors = SelectSeq(issues, LAMBDA issue : issue.severity = "error")
    /\ result.warnings = SelectSeq(issues, LAMBDA issue : issue.severity = "warning")
    /\ Len(result.errors) + Len(result.warnings) = Len(issues)
    /\ \A x \in DOMAIN issues :
          \/ \E e \in DOMAIN result.errors : result.errors[e] = issues[x]
          \/ \E w \in DOMAIN result.warnings : result.warnings[w] = issues[x]
    /\ result.summary =
         [attrGroups |-> Len(result.payload.attrGroups),
          attributes |-> Len(result.payload.attributes),
          types |-> Len(result.payload.types),
          items |-> Len(result.payload.items),
          errors |-> Len(result.errors),
          warnings |-> Len(result.warnings)]

\* a run that recorded a warning between two errors, one of them without a
\* row, and returned the three of them and a non-empty payload
C21_Witness ==
  /\ Done
  /\ \E x, y, z \in DOMAIN issues :
        /\ x < y /\ y < z
        /\ issues[x].severity = "error" /\ issues[x].row = 0
        /\ issues[y].severity = "warning"
        /\ issues[z].severity = "error"
  /\ Len(result.errors) >= 2
  /\ Len(result.warnings) >= 1
  /\ result.summary.items > 0

(***************************************************************************)
(* The order of the item sheets                                            *)
(***************************************************************************)
\* the position of the item sheet a recorded issue names (0 for other sheets)
ItemSheetIndex(sheetName) ==
  IF sheetName \in SeqToSet(itemSheetNames) THEN IndexOf(itemSheetNames, sheetName) ELSE 0

\* the item sheets parsed so far: none before Item_Parents, then Item_Parents
\* and the product sheets already handed to flatMap's callback
ItemSheetsParsed ==
  IF pc \in {"parseProductSheets", "done"} THEN sheetIndex
  ELSE 0

\* the row whose item stands at position n of the returned items
ItemRefAt(n) ==
  CHOOSE ref \in ItemRefs :
    ItemEmitted(ref) /\ ItemIdentifier(ref) = result.payload.items[n].identifier

DroppedAfterReserve(ref) ==
  /\ ItemReserves(ref)
  /\ NeedsParent(ref) \/ SelfParent(ref) \/ ~JsonCellsParse(ref)

LaterWithSameIdentifier(ref, o) ==
  ItemBefore(ref, o) /\ ItemIdentifier(o) = ItemIdentifier(ref)

\* C29 as stated: when a row takes its identifier and is dropped by the parent
\* or JSON checks, every later row with the same identifier records a
\* duplicate-identifier error and is dropped, and no emitted item carries the
\* identifier.
C29_AsStated ==
  Done =>
    \A ref \in ItemRefs :
      DroppedAfterReserve(ref) =>
        /\ ItemsWith(ItemIdentifier(ref)) = <<>>
        /\ \A o \in ItemRefs :
              LaterWithSameIdentifier(ref, o) =>
                DuplicateItemErrorAt(o) /\ ItemRowNotEmitted(o)

\* C29: a row that passes the identifier, name, type and duplicate checks
\* has its identifier among the seen identifiers from the moment its sheet is
\* parsed, whatever happens to the row afterwards; when it is dropped by the
\* parent or JSON checks it records one error, no emitted item carries the
\* identifier, and every later row with the same identifier records exactly
\* one error and is not emitted: the duplicate-identifier error when the
\* later row has a name and a type, and otherwise the name_en or
\* type_identifier error of the check it fails first.
C29_ReservedBeforeDrop ==
  /\ \A ref \in ItemRefs :
        ref[1] <= ItemSheetsParsed /\ ItemReserves(ref) =>
          ItemIdentifier(ref) \in seenItemIdentifiers
  /\ Done =>
        \A ref \in ItemRefs :
          DroppedAfterReserve(ref) =>
            /\ Len(ItemErrorsAt(ref)) = 1
            /\ ItemsWith(ItemIdentifier(ref)) = <<>>
            /\ \A o \in ItemRefs :
                  LaterWithSameIdentifier(ref, o) =>
                    /\ Len(ItemErrorsAt(o)) = 1
                    /\ ItemRowNotEmitted(o)
                    /\ ItemHasRequired(o) => DuplicateItemErrorAt(o)
                    /\ ~ItemHasRequired(o) =>
                          /\ ~DuplicateItemErrorAt(o)
                          /\ \/ ErrorAt(ItemSheetName(o), ItemRowNumber(o), "name_en")
                             \/ ErrorAt(ItemSheetName(o), ItemRowNumber(o),
                                        "type_identifier")

\* a row dropped for its values_json cell, followed by a row with the same
\* identifier and nothing wrong of its own, which is refused as a duplicate
C29_Witness ==
  /\ Done
  /\ \E ref, o \in ItemRefs :
        /\ DroppedAfterReserve(ref)
        /\ ~JsonCellsParse(ref)
        /\ LaterWithSameIdentifier(ref, o)
        /\ ItemHasRequired(o)
        /\ ~NeedsParent(o) /\ ~SelfParent(o) /\ JsonCellsParse(o)
        /\ DuplicateItemErrorAt(o)
        /\ ItemsWith(ItemIdentifier(ref)) = <<>>

(***************************************************************************)
(* Missing sheets are reported first                                       *)
(***************************************************************************)
MissingSheetIssue(issue) ==
  /\ issue.severity = "error"
  /\ issue.row = 0
  /\ issue.field = Field("sheet")
  /\ issue.message.text = "Sheet is required but missing"

\* the missing-sheet entries of a list stand ahead of all its other entries
MissingSheetsFirst(list) ==
  \A x, y \in DOMAIN list : x < y /\ MissingSheetIssue(list[y]) => MissingSheetIssue(list[x])

AbsentSheets == { name \in SeqToSet(allSheetNames) : ~workbook[name].exists }

\* C25: nothing is recorded before the sheets are checked; from then on the
\* issue list starts with one missing-sheet error per absent sheet, in the
\* order of the required sheets, and everything the sheet parsers record
\* comes after them; so in the returned errors every missing-sheet error
\* precedes every header-level and row-level error.
C25_MissingSheetsFirst ==
  /\ pc = "ensureRequiredSheets" => issues = <<>>
  /\ pc # "ensureRequiredSheets" =>
        /\ Len(issues) >= Cardinality(AbsentSheets)
        /\ SubSeq(issues, 1, Cardinality(AbsentSheets)) = ensureRequiredSheets(workbook, <<>>)
        /\ \A x \in DOMAIN issues :
              MissingSheetIssue(issues[x]) <=> x <= Cardinality(AbsentSheets)
  /\ MissingSheetsFirst(issues)
  /\ Done => MissingSheetsFirst(result.errors)

\* a returned error list with a missing-sheet error, a header error and a row
\* error
C25_Witness ==
  /\ Done
  /\ \E x, y, z \in DOMAIN result.errors :
        /\ MissingSheetIssue(result.errors[x])
        /\ result.errors[y].message.text = "Missing required header"
        /\ result.errors[z].row > 1
        /\ x < y /\ x < z

(***************************************************************************)
(* The template workbook against the parser                                *)
(***************************************************************************)
\* the headers the parser requires of a sheet
RequiredHeaders(sheetName) ==
  CASE sheetName = SHEETS.CONFIG -> CONFIG_HEADERS
    [] sheetName = SHEETS.GROUPS -> GROUP_HEADERS
    [] sheetName = SHEETS.ATTRIBUTES -> ATTRIBUTE_HEADERS
    [] sheetName = SHEETS.TYPES -> TYPE_HEADERS
    [] sheetName = SHEETS.TYPE_GROUP_BINDINGS -> TYPE_GROUP_BINDING_HEADERS
    [] OTHER -> ITEM_BASE_HEADERS

\* C24: the workbook of createImportTemplateWorkbook has every sheet the
\* parser requires and every required header of each, and the run on it
\* records no error: no issue of severity error at any step, and it returns
\* valid = true with an empty errors list.
C24_TemplateValidates ==
  workbook = createImportTemplateWorkbook =>
    /\ \A x \in DOMAIN allSheetNames :
          /\ workbook[allSheetNames[x]].exists
          /\ MissingHeaders(workbook[allSheetNames[x]],
                            RequiredHeaders(allSheetNames[x])) = <<>>
    /\ \A x \in DOMAIN issues : issues[x].severity # "error"
    /\ Done => result.valid /\ result.errors = <<>> /\ result.summary.errors = 0

\* the run on the template has returned: two groups, three attributes, four
\* types, the parent item and the three products with their values
C24_Witness ==
  /\ Done
  /\ workbook = createImportTemplateWorkbook
  /\ result.valid
  /\ result.summary.attrGroups = 2
  /\ result.summary.attributes = 3
  /\ result.summary.types = 4
  /\ result.summary.items = 4
  /\ \A n \in 2..4 :
        DOMAIN result.payload.items[n].values = {Material, IsCoated, CuttingDiameter}

ReturnedFrom(fn) == call # <<>> /\ call[1].fn = fn /\ returned # <<>>

TrueWords == {<<"t","r","u","e">>, <<"1">>, <<"y","e","s">>, <<"y">>}
FalseWords == {<<"f","a","l","s","e">>, <<"0">>, <<"n","o">>, <<"n">>}

\* the text is one of the words, ignoring case and surrounding whitespace
IsWord(value, words) ==
  value.t = "string" /\ toLowerCase(trim(value.s)) \in words

Rejected(r) == ~r.ok /\ r.value = Undefined

\* C27: parseBoolean returns a boolean input itself, true / false for the
\* numbers 1 / 0, true for a text that is one of true, 1, yes, y ignoring case
\* and surrounding whitespace, false for one of false, 0, no, n, and rejects
\* every other input (ok = false, no value).
C27_BooleanTable ==
  ReturnedFrom("parseBoolean") =>
    LET Table(value, r) ==
          CASE value.t = "boolean" -> r.ok /\ r.value = value
            [] value = NumV(1, 0) -> r.ok /\ r.value = BoolV(TRUE)
            [] value = NumV(0, 0) -> r.ok /\ r.value = BoolV(FALSE)
            [] IsWord(value, TrueWords) -> r.ok /\ r.value = BoolV(TRUE)
            [] IsWord(value, FalseWords) -> r.ok /\ r.value = BoolV(FALSE)
            [] OTHER -> Rejected(r)
    IN Table(call[1].value, returned[1])

(***************************************************************************)
(* Values of language-dependent attributes                                 *)
(***************************************************************************)
ObjectShaped(value) == value.t \in {"object", "localized"}

NonBlank(value) == value.t \notin {"null", "undefined"} /\ trim(StringOf(value)) # <<>>

\* C28: for a language-dependent attribute of any type code a non-blank raw
\* value is accepted and not skipped; an object-shaped raw value is returned
\* unchanged, and any other raw value (text, number, boolean, array) is
\* returned as the one-entry mapping from the default language to its
\* trimmed text, whether or not the boolean, integer or float coercer of the
\* type code would accept it.
C28_LanguageDependentValue ==
  /\ ReturnedFrom("coerceAttributeValue")
  /\ call[1].attribute.languageDependent
  /\ NonBlank(call[1].value)
  => /\ returned[1].ok
     /\ ~returned[1].skip
     /\ returned[1].error = ""
     /\ ObjectShaped(call[1].value) => returned[1].value = call[1].value
     /\ ~ObjectShaped(call[1].value) =>
           /\ returned[1].value.t = "localized"
           /\ returned[1].value.l = call[1].defaultLanguage
           /\ returned[1].value.s = trim(StringOf(call[1].value))

\* a BOOLEAN attribute flagged language-dependent given a text no boolean
\* coercer accepts: the text is stored under the default language
C28_Witness ==
  /\ ReturnedFrom("coerceAttributeValue")
  /\ call[1].attribute.languageDependent
  /\ call[1].attribute.type = 2
  /\ call[1].value = StrV(<<" ","h","i"," ">>)
  /\ call[1].defaultLanguage = LanguageDe
  /\ ~parseBoolean(call[1].value).ok
  /\ returned[1].ok
  /\ returned[1].value = LocalizedV(LanguageDe, <<"h","i">>)

(***************************************************************************)
(* The import request                                                      *)
(***************************************************************************)
\* the four values held are the ones the validation of the file gives
Holds(validation) ==
  /\ importPayload = <<validation.payload>>
  /\ importSummary = <<validation.summary>>
  /\ importErrors = validation.errors
  /\ importWarnings = validation.warnings

\* parseAndValidateImportWorkbook(buffer) for the bytes of the file
ValidationOf(name) == parseAndValidateImportWorkbook(FileNamed(name).workbook)

HeldFrom(file) ==
  IF Readable(file) THEN Holds(ValidationOf(file))
  ELSE /\ importPayload = <<>>
       /\ importSummary = <<>>
       /\ Len(importErrors) = 1
       /\ importWarnings = <<>>


\* the body of a request is posted in this step
RequestIssued == importRequests' # importRequests

\* C22: a request is posted only by a step taken where the validation that
\* finished last succeeded and its result is held with an empty error list,
\* and the body posted is the payload of that validation; while the
\* validation that finished last found errors or could not read the
\* workbook, or none has finished, the button is disabled and no step posts
\* a request.
C22_ImportOnlyWhenValid ==
  /\ [][RequestIssued =>
          /\ completed # <<>>
          /\ completed[Len(completed)].outcome = "valid"
          /\ HeldFrom(completed[Len(completed)].file)
          /\ importErrors = <<>>
          /\ importRequests' = Append(importRequests, importPayload[1])]_vars
  /\ [](completed = <<>> \/ completed[Len(completed)].outcome # "valid"
          => PushDisabled)

\* a workbook with errors was validated, then the template, and the payload of
\* the template was posted
C22_Witness ==
  /\ completed = << Completed("no-types.xlsx", "invalid"),
                    Completed("template.xlsx", "valid") >>
  /\ validations = <<>>
  /\ importLoading
  /\ importRequests = <<ValidationOf("template.xlsx").payload>>

(***************************************************************************)
(* Files chosen one after another                                          *)
(***************************************************************************)
\* C30: once no validation is under way, the payload, summary, errors and
\* warnings held are those of the file chosen last, whose name is displayed.
C30_LatestSelectionHeld ==
  validations = <<>> /\ pc = "idle" /\ completed # <<>> => HeldFrom(importFileName)
====
